---- MODULE Spec2Model ----
(***************************************************************************)
(* Model of species.plot.plot_spectrum.plot_spectrum: the composition of   *)
(* spectra, photometry, synthetic photometry, filter profiles and fit      *)
(* residuals into a figure with up to three panels.                        *)
(*                                                                         *)
(* Units: wavelengths, filter widths and axis limits are integers in       *)
(* thousandths (1000 = 1.0); raw fluxes are integers; every plotted value  *)
(* is an exact rational [num, den].  A call is modelled step by step: the  *)
(* variable pc is the position inside plot_spectrum.  The caller's         *)
(* objects (boxes, the plot_kwargs list and its dictionaries) outlive a    *)
(* call, so that a second call sees what the first one left behind.        *)
(***************************************************************************)
EXTENDS Integers, Sequences, FiniteSets, TLC

\* ---------------------------------------------------------------- bounds
MaxItems == 2
MaxCalls == 2
NSamples == 2
NMeas == 2

\* ------------------------------------------------- python values as data
EmptyDict == [k \in {} |-> "x"]
None == [t |-> "none", v |-> EmptyDict]
Dict(f) == [t |-> "dict", v |-> f]
List(s) == [t |-> "list", v |-> s]
NoneStr == "<None>"

IsNone(o) == o.t = "none"
IsDict(o) == o.t = "dict"
IsList(o) == o.t = "list"
\* python truthiness of an Optional[dict]
Truthy(o) == o.t = "dict" /\ DOMAIN o.v # {}
\* key in dict
Has(o, k) == o.t = "dict" /\ k \in DOMAIN o.v
\* d[k] = val on a dict
Put(o, k, val) == Dict([q \in (DOMAIN o.v) \cup {k} |-> IF q = k THEN val ELSE o.v[q]])
\* del d[k]
Del(o, k) == Dict([q \in (DOMAIN o.v) \ {k} |-> o.v[q]])

\* ------------------------------------------------------------- rationals
Rat(n, d) == [num |-> n, den |-> d]
\* a masked sample of a numpy masked array
MaskedVal == [num |-> 0, den |-> 0]
RatEq(a, b) == a.num * b.den = b.num * a.den
RECURSIVE GCD(_, _)
GCD(a, b) == IF b = 0 THEN a ELSE GCD(b, a % b)
\* the fraction n / d in lowest terms, d > 0
Reduce(n, d) ==
    LET g == GCD(IF n < 0 THEN -n ELSE n, d)
    IN IF g = 0 THEN Rat(n, d) ELSE Rat(n \div g, d \div g)
\* the sentinel for a NaN flux sample
NaN == 999999
IsNaN(f) == f = NaN
\* the sentinel for a photometric error that is None
NoErr == -1
\* the sentinels for +inf and -inf
PosInf == 888888
NegInf == -888888
IsInf(f) == f = PosInf \/ f = NegInf
\* numpy.isfinite
IsFinite(f) == ~IsNaN(f) /\ ~IsInf(f)
\* an infinite sample as it reaches a draw call: +-1/0
InfVal(f) == [num |-> IF f = PosInf THEN 1 ELSE -1, den |-> 0]

\* ------------------------------------------------- external collaborators
\* ReadFilter(name).mean_wavelength()
mean_wavelength(name) == IF name = "F1" THEN 1200 ELSE IF name = "F2" THEN 2200 ELSE 3800
\* ReadFilter(name).filter_fwhm()
filter_fwhm(name) == IF name = "F1" THEN 200 ELSE IF name = "F2" THEN 400 ELSE 600
\* ReadFilter(name).get_filter(): one (wavelength, transmission) row per sample
get_filter(name) == [i \in 1..2 |-> <<mean_wavelength(name) + 100 * (i - 1), 500>>]
\* create_model_label(...) of species.util.plot_util
create_model_label(box) == box.model

\* ------------------------------------------------------------ the inputs
Grid(step) == [i \in 1..NSamples |-> step * i]
FluxOf(base) == [i \in 1..NSamples |-> base + i]

SpectrumBox(step, base) ==
    [kind |-> "SpectrumBox", wavelength |-> Grid(step), flux |-> FluxOf(base)]
ModelBox(step, base, name) ==
    [kind |-> "ModelBox", wavelength |-> Grid(step), flux |-> FluxOf(base), model |-> name]
\* a list of ModelBox samples on one wavelength grid
SampleList(step) ==
    [kind |-> "list", items |-> [i \in 1..2 |-> ModelBox(step, 10 * i, "sample")]]
\* a list of ModelBox samples with the given fluxes at the first sample
SampleSet(step, bases) ==
    [kind |-> "list", items |-> [i \in 1..Len(bases) |-> ModelBox(step, bases[i], "sample")]]
PhotometryBox ==
    [kind |-> "PhotometryBox", wavelength |-> <<1200, 2200>>,
     flux |-> <<<<10, 1>>, <<20, NoErr>>>>, filter_name |-> <<"F1", "F2">>]
\* one spectrum of an ObjectBox: rows (wavelength, flux, error)
ObjSpectrum(step) == [i \in 1..NSamples |-> <<step * i, 5 + i, 1>>]
\* ObjectBox: spectrum and flux are dictionaries, kept in insertion order
ObjectBox(spectrum, flux) == [kind |-> "ObjectBox", spectrum |-> spectrum, flux |-> flux]
Phot1(f, e) == [nd |-> 1, f |-> <<f>>, e |-> <<e>>]
Phot2 == [nd |-> 2, f |-> [i \in 1..NMeas |-> 10 * i], e |-> [i \in 1..NMeas |-> i]]
SynphotBox(flux) == [kind |-> "SynphotBox", flux |-> flux]

Style(c) == Dict("color" :> c)
MarkerStyle(c) == Dict("color" :> c @@ "marker" :> "o")

VARIABLES
    boxes,          \* the caller's list of boxes
    kw_given,       \* TRUE iff the caller passes a plot_kwargs list
    plot_kwargs,    \* the list plot_kwargs of the running call (the caller's list when given)
    caller_dicts,   \* the caller's override objects, by their original index
    alias,          \* the slots of plot_kwargs that still hold the caller's object
    orig_kwargs,    \* the caller's list as it was passed to the first call
    filters, residuals, envelope, xlim, ylim, ylim_res, scale, quantity, legend,
    output,         \* the path to save the figure to, NoneStr to display it
    pc,             \* position in plot_spectrum
    err,            \* the exception that ended the call, "" if none
    ncalls,         \* calls started so far
    j,              \* index of the next box of the item loop (1-based)
    panels,         \* the grid: rows top to bottom and height ratios, <<>> before creation
    axlim,          \* x-range of each panel
    aylim,          \* y-range set on each panel
    ylabel, exponent, scaling,
    res_lim,        \* the residual limit computed by the call, -1 before
    legends,        \* the legends drawn on the main panel
    warned,         \* number of warnings issued
    draws,          \* the draw calls issued so far, in order
    ncolor,         \* position in the colour cycle of each panel
    shown,          \* number of plt.show() of the running call
    saved,          \* number of plt.savefig(output) of the running call
    history         \* outcome of each finished call

vars == <<boxes, kw_given, plot_kwargs, caller_dicts, alias, orig_kwargs,
          filters, residuals, envelope, xlim, ylim, ylim_res, scale, quantity, legend,
          output, pc, err, ncalls, j, panels, axlim, aylim, ylabel, exponent, scaling,
          res_lim, legends, warned, draws, ncolor, shown, saved, history>>

inputs == <<boxes, kw_given, orig_kwargs, filters, residuals, envelope, xlim,
            ylim, ylim_res, scale, quantity, legend, output>>

\* ------------------------------------------------- the running call's heap
\* The local state threaded through the body of the item loop:
\*   pk the list plot_kwargs, cd the caller's dictionaries, al the aliased
\*   slots, dr the draw calls, nc the colour cycles, fs the local
\*   flux_scaling (thousandths; one entry = a scalar), err the exception.
One == <<1000>>
ColorCycle == <<"C0", "C1", "C2", "C3", "C4", "C5", "C6", "C7", "C8", "C9">>

Raise(m, e) == IF m.err = "" THEN [m EXCEPT !.err = e] ELSE m

\* plot_kwargs[k] = val: the slot gets a new object
SetSlot(m, k, val) ==
    [m EXCEPT !.pk = [@ EXCEPT ![k] = val], !.al = @ \ {k}]

\* a change made in place to the object held by slot k
MutSlot(m, k, val) ==
    [m EXCEPT !.pk = [@ EXCEPT ![k] = val],
              !.cd = IF k \in m.al THEN [@ EXCEPT ![k] = val] ELSE @]

\* if "zorder" not in plot_kwargs[k]: plot_kwargs[k]["zorder"] = z
DefaultZorder(m, k, z) ==
    IF Has(m.pk[k], "zorder") THEN m ELSE MutSlot(m, k, Put(m.pk[k], "zorder", z))

\* the same on the nested dictionary plot_kwargs[k][key]
DefaultZorderKey(m, k, key, z) ==
    IF Has(m.pk[k].v[key], "zorder") THEN m
    ELSE MutSlot(m, k, Put(m.pk[k], key, Put(m.pk[k].v[key], "zorder", z)))

\* the same on the list element plot_kwargs[k][key][i]
DefaultZorderElem(m, k, key, i, z) ==
    IF Has(m.pk[k].v[key].v[i], "zorder") THEN m
    ELSE MutSlot(m, k, Put(m.pk[k], key,
             List([m.pk[k].v[key].v EXCEPT ![i] = Put(@, "zorder", z)])))

FsAt(fs, i) == IF Len(fs) = 1 THEN fs[1] ELSE fs[i]
\* flux_scaling * raw / scaling for one sample, raw a rational
ScaleVal(f, raw, sc) == Reduce(f * raw.num * sc.den, 1000 * raw.den * sc.num)
\* flux_scaling * masked / scaling, elementwise
ScaleArr(fs, arr, sc) ==
    [i \in 1..Len(arr) |->
        IF IsNaN(arr[i]) THEN MaskedVal
        ELSE IF IsInf(arr[i]) THEN InfVal(arr[i])
        ELSE ScaleVal(FsAt(fs, i), Rat(arr[i], 1), sc)]

\* a branch that forgets to set flux_scaling and keeps what is left over
FluxScaling_mut(m, w) == m.fs
\* if quantity == "flux": flux_scaling = <the wavelengths of what is drawn>
FluxScaling(m, w) == IF quantity = "flux" THEN w ELSE m.fs

Src(jj, key, i) == [j |-> jj, key |-> key, i |-> i]

\* the full width taken for the horizontal error
HalfWidth_mut(fwhm) == <<Rat(fwhm, 1)>>
\* xerr=fwhm / 2.0
HalfWidth(fwhm) == <<Rat(fwhm, 2)>>

\* One call of an Axes method: ax.plot / ax.errorbar / ax.fill_between /
\* ax.axhline with the keywords written in the call (fixed) and the
\* unpacked dictionary (**kw).  A keyword given twice is a TypeError; a
\* line without a colour takes the next colour of the panel's cycle.
AxCall(m, d, fixed, kw) ==
    IF m.err # "" THEN m
    ELSE IF (DOMAIN fixed) \cap (DOMAIN kw) # {} THEN Raise(m, "TypeError")
    ELSE LET eff == fixed @@ kw
             cyc == d.prim \in {"plot", "errorbar"} /\ "color" \notin DOMAIN eff
             col == IF "color" \in DOMAIN eff THEN eff["color"]
                    ELSE IF cyc THEN ColorCycle[(m.nc[d.ax] % 10) + 1]
                    ELSE "default"
         IN [m EXCEPT !.dr = Append(@, [ax |-> d.ax, prim |-> d.prim, src |-> d.src,
                                        x |-> d.x, y |-> d.y, y2 |-> d.y2,
                                        yerr |-> d.yerr, xerr |-> d.xerr,
                                        kw |-> eff, color |-> col]),
                      !.nc = IF cyc THEN [@ EXCEPT ![d.ax] = @ + 1] ELSE @]

Line(ax, src, x, y) ==
    [ax |-> ax, prim |-> "plot", src |-> src, x |-> x, y |-> y,
     y2 |-> <<>>, yerr |-> <<>>, xerr |-> <<>>]
Errorbar(ax, src, x, y, xerr, yerr) ==
    [ax |-> ax, prim |-> "errorbar", src |-> src, x |-> x, y |-> y,
     y2 |-> <<>>, yerr |-> yerr, xerr |-> xerr]
Band(ax, src, x, y1, y2) ==
    [ax |-> ax, prim |-> "fill_between", src |-> src, x |-> x, y |-> y1,
     y2 |-> y2, yerr |-> <<>>, xerr |-> <<>>]

\* --------------------------------------------- SpectrumBox and ModelBox
\* lines 563-620: one spectrum drawn as a line
RenderSpectrum(m, jj, box) ==
    LET label0 == IF box.kind = "ModelBox" THEN create_model_label(box) ELSE NoneStr
        fs == FluxScaling(m, box.wavelength)
        m1 == [m EXCEPT !.fs = fs]
        y == ScaleArr(fs, box.flux, scaling)
    IN IF Truthy(m.pk[jj])
       THEN LET copy0 == m.pk[jj]
                label == IF Has(copy0, "label") THEN copy0.v["label"] ELSE label0
                copy1 == IF Has(copy0, "label") THEN Del(copy0, "label") ELSE copy0
                copy2 == IF Has(copy1, "zorder") THEN copy1 ELSE Put(copy1, "zorder", "2.0")
            IN AxCall(m1, Line("ax1", Src(jj, "", 0), box.wavelength, y),
                      "label" :> label, copy2.v)
       ELSE AxCall(m1, Line("ax1", Src(jj, "", 0), box.wavelength, y),
                   "lw" :> "0.5" @@ "label" :> label0 @@ "zorder" :> "2.0", EmptyDict)

\* ------------------------------------------------ a list of ModelBox
\* numpy.percentile (linear interpolation) of the sorted values vs at the
\* percentile p10 / 10, times 1000
RECURSIVE Insert(_, _)
Insert(s, x) ==
    IF s = <<>> THEN <<x>>
    ELSE IF x <= Head(s) THEN <<x>> \o s
    ELSE <<Head(s)>> \o Insert(Tail(s), x)
RECURSIVE SortAsc(_)
SortAsc(s) == IF s = <<>> THEN <<>> ELSE Insert(SortAsc(Tail(s)), Head(s))

Percentile(vals, p10) ==
    LET vs == SortAsc(vals)
        h == (Len(vs) - 1) * p10
        lo == (h \div 1000) + 1
        fr == h % 1000
    IN IF lo >= Len(vs) THEN Rat(1000 * vs[Len(vs)], 1000)
       ELSE Rat(1000 * vs[lo] + fr * (vs[lo + 1] - vs[lo]), 1000)

\* numpy.percentile(spec_list, [0.3, 16.0, 84.0, 99.7], axis=0)[row]
SpecPercent(box, p10) ==
    [s \in 1..Len(box.items[1].flux) |->
        Percentile([i \in 1..Len(box.items) |-> box.items[i].flux[s]], p10)]

ScaleBand(fs, band, sc) ==
    [s \in 1..Len(band) |-> ScaleVal(FsAt(fs, s), band[s], sc)]

\* lines 643-675: one sample of the list
ListStep(m, jj, box, i) ==
    LET item == box.items[i]
        fs == FluxScaling(m, item.wavelength)
        m1 == [m EXCEPT !.fs = fs]
        y == ScaleArr(fs, item.flux, scaling)
    IN IF m.err # "" THEN m
       ELSE IF envelope THEN m1
       ELSE IF Truthy(m1.pk[jj])
       THEN LET m2 == DefaultZorder(m1, jj, "1.0")
            IN AxCall(m2, Line("ax1", Src(jj, "", i), item.wavelength, y),
                      EmptyDict, m2.pk[jj].v)
       ELSE AxCall(m1, Line("ax1", Src(jj, "", i), item.wavelength, y),
                   "color" :> "gray" @@ "lw" :> "0.2" @@ "alpha" :> "0.5"
                   @@ "zorder" :> "1.0", EmptyDict)

RECURSIVE ListLoop(_, _, _, _)
ListLoop(m, jj, box, i) ==
    IF i > Len(box.items) THEN m ELSE ListLoop(ListStep(m, jj, box, i), jj, box, i + 1)

\* the inner band drawn between the quartiles
RenderEnvelope_mut(m, jj, box) ==
    LET wavelength == box.items[Len(box.items)].wavelength
        outer1 == ScaleBand(m.fs, SpecPercent(box, 3), scaling)
        outer2 == ScaleBand(m.fs, SpecPercent(box, 997), scaling)
        inner1 == ScaleBand(m.fs, SpecPercent(box, 250), scaling)
        inner2 == ScaleBand(m.fs, SpecPercent(box, 750), scaling)
    IN IF m.err # "" THEN m
       ELSE IF Truthy(m.pk[jj])
       THEN LET m1 == DefaultZorder(m, jj, "1.0")
                m2 == IF Has(m1.pk[jj], "alpha") THEN MutSlot(m1, jj, Del(m1.pk[jj], "alpha"))
                      ELSE m1
                m3 == AxCall(m2, Band("ax1", Src(jj, "outer", 0), wavelength, outer1, outer2),
                             "alpha" :> "0.4", m2.pk[jj].v)
            IN AxCall(m3, Band("ax1", Src(jj, "inner", 0), wavelength, inner1, inner2),
                      "alpha" :> "1.0", m3.pk[jj].v)
       ELSE LET dflt == "color" :> "peachpuff" @@ "zorder" :> "1.0" @@ "linewidth" :> "0.0"
                m3 == AxCall(m, Band("ax1", Src(jj, "outer", 0), wavelength, outer1, outer2),
                             dflt @@ "alpha" :> "0.4", EmptyDict)
            IN AxCall(m3, Band("ax1", Src(jj, "inner", 0), wavelength, inner1, inner2),
                      dflt @@ "alpha" :> "1.0", EmptyDict)

\* lines 677-722: the two percentile bands
RenderEnvelope(m, jj, box) ==
    LET wavelength == box.items[Len(box.items)].wavelength
        outer1 == ScaleBand(m.fs, SpecPercent(box, 3), scaling)
        outer2 == ScaleBand(m.fs, SpecPercent(box, 997), scaling)
        inner1 == ScaleBand(m.fs, SpecPercent(box, 160), scaling)
        inner2 == ScaleBand(m.fs, SpecPercent(box, 840), scaling)
    IN IF m.err # "" THEN m
       ELSE IF Truthy(m.pk[jj])
       THEN LET m1 == DefaultZorder(m, jj, "1.0")
                m2 == IF Has(m1.pk[jj], "alpha") THEN MutSlot(m1, jj, Del(m1.pk[jj], "alpha"))
                      ELSE m1
                m3 == AxCall(m2, Band("ax1", Src(jj, "outer", 0), wavelength, outer1, outer2),
                             "alpha" :> "0.4", m2.pk[jj].v)
            IN AxCall(m3, Band("ax1", Src(jj, "inner", 0), wavelength, inner1, inner2),
                      "alpha" :> "1.0", m3.pk[jj].v)
       ELSE LET dflt == "color" :> "peachpuff" @@ "zorder" :> "1.0" @@ "linewidth" :> "0.0"
                m3 == AxCall(m, Band("ax1", Src(jj, "outer", 0), wavelength, outer1, outer2),
                             dflt @@ "alpha" :> "0.4", EmptyDict)
            IN AxCall(m3, Band("ax1", Src(jj, "inner", 0), wavelength, inner1, inner2),
                      dflt @@ "alpha" :> "1.0", EmptyDict)

\* lines 637-722
RenderList(m, jj, box) ==
    LET m1 == ListLoop(m, jj, box, 1)
    IN IF envelope THEN RenderEnvelope(m1, jj, box) ELSE m1

\* ------------------------------------------------------- PhotometryBox
\* lines 727-794: one photometric point; lc is the local list label_check
PhotStep(m, lc, jj, box, i) ==
    LET item == box.wavelength[i]
        fwhm == filter_fwhm(box.filter_name[i])
        fs == FluxScaling(m, <<item>>)
        m1 == [m EXCEPT !.fs = fs]
        y == <<ScaleVal(fs[1], Rat(box.flux[i][1], 1), scaling)>>
        yerr == IF box.flux[i][2] = NoErr THEN <<>>
                ELSE <<ScaleVal(fs[1], Rat(box.flux[i][2], 1), scaling)>>
        d == Errorbar("ax1", Src(jj, box.filter_name[i], i), <<item>>, y, HalfWidth(fwhm), yerr)
    IN IF m.err # "" THEN [m |-> m, lc |-> lc]
       ELSE IF Truthy(m1.pk[jj])
       THEN LET haslabel == Has(m1.pk[jj], "label")
                seen == haslabel /\ m1.pk[jj].v["label"] \in lc
                lc1 == IF haslabel /\ ~seen THEN lc \cup {m1.pk[jj].v["label"]} ELSE lc
                m2 == IF seen THEN MutSlot(m1, jj, Del(m1.pk[jj], "label")) ELSE m1
                m3 == DefaultZorder(m2, jj, "3.0")
            IN [m |-> AxCall(m3, d, EmptyDict, m3.pk[jj].v), lc |-> lc1]
       ELSE [m |-> AxCall(m1, d, "marker" :> "s" @@ "ms" :> "6" @@ "color" :> "black"
                                 @@ "zorder" :> "3.0", EmptyDict),
             lc |-> lc]

RECURSIVE PhotLoop(_, _, _, _, _)
PhotLoop(m, lc, jj, box, i) ==
    IF i > Len(box.wavelength) THEN m
    ELSE LET r == PhotStep(m, lc, jj, box, i)
         IN PhotLoop(r.m, r.lc, jj, box, i + 1)

\* lines 724-794
RenderPhotometry(m, jj, box) == PhotLoop(m, {}, jj, box, 1)

\* ----------------------------------------------------------- ObjectBox
\* numpy.argsort with the default kind: some permutation of the indices
\* that puts the keys in ascending order.  The default sort is not a
\* stable one, so equal keys may come out in either order.
argsort(keys) ==
    {p \in [1..Len(keys) -> 1..Len(keys)] :
        /\ \A a, b \in 1..Len(keys) : a # b => p[a] # p[b]
        /\ \A a, b \in 1..Len(keys) : a < b => keys[p[a]] <= keys[p[b]]}

Column(rows, c) == [i \in 1..Len(rows) |-> rows[i][c]]

\* a style stored with a fixed colour instead of the drawn one
SpectrumStyle_mut(color) ==
    Dict("marker" :> "s" @@ "ms" :> "2.0" @@ "ls" :> "none" @@ "color" :> "black")
\* lines 834-839: the style stored for a spectrum drawn without override
SpectrumStyle(color) ==
    Dict("marker" :> "s" @@ "ms" :> "2.0" @@ "ls" :> "none" @@ "color" :> color)

\* lines 811-859: one spectrum of the ObjectBox
ObjSpecStep(m, jj, key, rows) ==
    LET fs == FluxScaling(m, Column(rows, 1))
        m1 == [m EXCEPT !.fs = fs]
        x == Column(rows, 1)
        y == ScaleArr(fs, Column(rows, 2), scaling)
        yerr == ScaleArr(fs, Column(rows, 3), scaling)
    IN IF m.err # "" THEN m
       ELSE IF ~Truthy(m1.pk[jj]) \/ ~Has(m1.pk[jj], key)
       THEN LET m2 == AxCall(m1, Errorbar("ax1", Src(jj, key, 0), x, y, <<>>, yerr),
                             "ms" :> "2" @@ "marker" :> "s" @@ "zorder" :> "2.5"
                             @@ "ls" :> "none", EmptyDict)
                color == m2.dr[Len(m2.dr)].color
                m3 == IF IsNone(m2.pk[jj]) THEN SetSlot(m2, jj, Dict(EmptyDict)) ELSE m2
            IN MutSlot(m3, jj, Put(m3.pk[jj], key, SpectrumStyle(color)))
       ELSE IF ~IsDict(m1.pk[jj].v[key]) THEN Raise(m1, "TypeError")
       ELSE IF ~Has(m1.pk[jj].v[key], "marker")
       THEN AxCall(m1, Line("ax1", Src(jj, key, 0), x, y), EmptyDict, m1.pk[jj].v[key].v)
       ELSE LET m2 == DefaultZorderKey(m1, jj, key, "2.5")
            IN AxCall(m2, Errorbar("ax1", Src(jj, key, 0), x, y, <<>>, yerr),
                      EmptyDict, m2.pk[jj].v[key].v)

RECURSIVE ObjSpecLoop(_, _, _, _, _)
ObjSpecLoop(m, jj, box, order, n) ==
    IF n > Len(order) THEN m
    ELSE ObjSpecLoop(ObjSpecStep(m, jj, box.spectrum[order[n]][1], box.spectrum[order[n]][2]),
                     jj, box, order, n + 1)

\* lines 891-901: the measurements of a 2-D flux drawn with the default style
RECURSIVE PhotDefault2D(_, _, _, _, _)
PhotDefault2D(m, jj, item, p, i) ==
    IF i > Len(p.f) THEN m
    ELSE PhotDefault2D(
           AxCall(m, Errorbar("ax1", Src(jj, item, i), <<mean_wavelength(item)>>,
                              <<ScaleVal(m.fs[1], Rat(p.f[i], 1), scaling)>>,
                              HalfWidth(filter_fwhm(item)),
                              <<ScaleVal(m.fs[1], Rat(p.e[i], 1), scaling)>>),
                  "marker" :> "s" @@ "ms" :> "5" @@ "zorder" :> "3.0"
                  @@ "color" :> "black", EmptyDict),
           jj, item, p, i + 1)

\* every measurement drawn with the first style of the list
RECURSIVE PhotList2D_mut(_, _, _, _, _)
PhotList2D_mut(m, jj, item, p, i) ==
    IF i > Len(p.f) \/ m.err # "" THEN m
    ELSE IF i > Len(m.pk[jj].v[item].v) THEN Raise(m, "IndexError")
    ELSE LET m1 == DefaultZorderElem(m, jj, item, 1, "3.0")
         IN PhotList2D_mut(
              AxCall(m1, Errorbar("ax1", Src(jj, item, i), <<mean_wavelength(item)>>,
                                  <<ScaleVal(m1.fs[1], Rat(p.f[i], 1), scaling)>>,
                                  HalfWidth(filter_fwhm(item)),
                                  <<ScaleVal(m1.fs[1], Rat(p.e[i], 1), scaling)>>),
                     EmptyDict, m1.pk[jj].v[item].v[1].v),
              jj, item, p, i + 1)

\* lines 934-946: the measurements of a 2-D flux drawn with a list of styles
RECURSIVE PhotList2D(_, _, _, _, _)
PhotList2D(m, jj, item, p, i) ==
    IF i > Len(p.f) \/ m.err # "" THEN m
    ELSE IF i > Len(m.pk[jj].v[item].v) THEN Raise(m, "IndexError")
    ELSE LET m1 == DefaultZorderElem(m, jj, item, i, "3.0")
         IN PhotList2D(
              AxCall(m1, Errorbar("ax1", Src(jj, item, i), <<mean_wavelength(item)>>,
                                  <<ScaleVal(m1.fs[1], Rat(p.f[i], 1), scaling)>>,
                                  HalfWidth(filter_fwhm(item)),
                                  <<ScaleVal(m1.fs[1], Rat(p.e[i], 1), scaling)>>),
                     EmptyDict, m1.pk[jj].v[item].v[i].v),
              jj, item, p, i + 1)

\* lines 876-979: one filter of the ObjectBox
ObjPhotStep(m, jj, item, p) ==
    LET wavelength == mean_wavelength(item)
        fwhm == filter_fwhm(item)
        fs == FluxScaling(m, <<wavelength>>)
    IN IF m.err # "" THEN m
       ELSE IF ~Truthy(m.pk[jj]) \/ ~Has(m.pk[jj], item)
       THEN LET m1 == IF ~Truthy(m.pk[jj]) THEN SetSlot(m, jj, Dict(EmptyDict)) ELSE m
                m2 == [m1 EXCEPT !.fs = fs]
                m3 == PhotDefault2D(m2, jj, item, p, 1)
                color == m3.dr[Len(m3.dr)].color
            IN MutSlot(m3, jj, Put(m3.pk[jj], item,
                   Dict("marker" :> "s" @@ "ms" :> "5.0" @@ "color" :> color)))
       ELSE LET m2 == [m EXCEPT !.fs = fs]
            IN IF p.nd = 2
               THEN IF ~IsList(m2.pk[jj].v[item]) THEN Raise(m2, "ValueError: list required")
                    ELSE PhotList2D(m2, jj, item, p, 1)
               ELSE IF ~IsDict(m2.pk[jj].v[item]) THEN Raise(m2, "TypeError")
               ELSE LET m3 == DefaultZorderKey(m2, jj, item, "3.0")
                        y == <<ScaleVal(fs[1], Rat(p.f[1], 1), scaling)>>
                    IN IF p.e[1] = 0
                       THEN AxCall(m3, Errorbar("ax1", Src(jj, item, 1), <<wavelength>>, y,
                                                HalfWidth(fwhm),
                                                <<ScaleVal(fs[1], Rat(p.f[1], 2), scaling)>>),
                                   "uplims" :> "True" @@ "capsize" :> "2.0"
                                   @@ "capthick" :> "0.0", m3.pk[jj].v[item].v)
                       ELSE AxCall(m3, Errorbar("ax1", Src(jj, item, 1), <<wavelength>>, y,
                                                HalfWidth(fwhm),
                                                <<ScaleVal(fs[1], Rat(p.e[1], 1), scaling)>>),
                                   EmptyDict, m3.pk[jj].v[item].v)

RECURSIVE ObjPhotLoop(_, _, _, _, _)
ObjPhotLoop(m, jj, box, order, n) ==
    IF n > Len(order) THEN m
    ELSE ObjPhotLoop(ObjPhotStep(m, jj, box.flux[order[n]][1], box.flux[order[n]][2]),
                     jj, box, order, n + 1)

\* lines 796-979
RenderObject(m, jj, box, spec_sort, filter_sort) ==
    ObjPhotLoop(ObjSpecLoop(m, jj, box, spec_sort, 1), jj, box, filter_sort, 1)

\* lines 801-805: the orders np.argsort may give to the spectra of a box
SpecSorts(box) ==
    IF box.kind = "ObjectBox"
    THEN argsort([i \in 1..Len(box.spectrum) |-> box.spectrum[i][2][1][1]])
    ELSE {<<>>}
\* lines 865-870: the orders np.argsort may give to the filters of a box
FilterSorts(box) ==
    IF box.kind = "ObjectBox"
    THEN argsort([i \in 1..Len(box.flux) |-> mean_wavelength(box.flux[i][1])])
    ELSE {<<>>}

\* ---------------------------------------------------------- SynphotBox
\* a scan that keeps the last match
RECURSIVE FindObject_mut(_, _)
FindObject_mut(bx, i) ==
    IF i > Len(bx) THEN 0
    ELSE IF FindObject_mut(bx, i + 1) # 0 THEN FindObject_mut(bx, i + 1)
    ELSE IF bx[i].kind = "ObjectBox" THEN i
    ELSE 0
\* lines 982-987 and 1079-1084: index of the first ObjectBox, 0 for None
RECURSIVE FindObject(_, _)
FindObject(bx, i) ==
    IF i > Len(bx) THEN 0
    ELSE IF bx[i].kind = "ObjectBox" THEN i
    ELSE FindObject(bx, i + 1)

\* lines 989-1069: one filter of the SynphotBox
SynphotStep(m, jj, obj_index, item, value) ==
    LET wavelength == mean_wavelength(item)
        fwhm == filter_fwhm(item)
        fs == FluxScaling(m, <<wavelength>>)
        m1 == [m EXCEPT !.fs = fs]
        d == Errorbar("ax1", Src(jj, item, 1), <<wavelength>>,
                      <<ScaleVal(fs[1], Rat(value, 1), scaling)>>, HalfWidth(fwhm), <<>>)
        strip(c, k) == IF Has(c, k) THEN Del(c, k) ELSE c
        zord(c) == IF Has(c, "zorder") THEN c ELSE Put(c, "zorder", "4.0")
    IN IF m.err # "" THEN m
       ELSE IF ~IsNone(m1.pk[jj]) /\ Has(m1.pk[jj], item)
       THEN IF ~IsDict(m1.pk[jj].v[item]) THEN Raise(m1, "TypeError")
            ELSE AxCall(m1, d, EmptyDict, zord(m1.pk[jj].v[item]).v)
       ELSE IF obj_index # 0 /\ obj_index > Len(m1.pk) THEN Raise(m1, "IndexError")
       ELSE IF obj_index = 0 \/ ~Truthy(m1.pk[obj_index]) \/ ~Has(m1.pk[obj_index], item)
       THEN AxCall(m1, d, "alpha" :> "0.7" @@ "marker" :> "s" @@ "ms" :> "5"
                          @@ "zorder" :> "4.0" @@ "mfc" :> "white", EmptyDict)
       ELSE IF IsList(m1.pk[obj_index].v[item])
       THEN IF Len(m1.pk[obj_index].v[item].v) = 0 THEN Raise(m1, "IndexError")
            ELSE AxCall(m1, d, "mfc" :> "white",
                        zord(strip(m1.pk[obj_index].v[item].v[1], "label")).v)
       ELSE AxCall(m1, d, "mfc" :> "white",
                   zord(strip(strip(m1.pk[obj_index].v[item], "label"), "mfc")).v)

RECURSIVE SynphotLoop(_, _, _, _, _)
SynphotLoop(m, jj, obj_index, box, n) ==
    IF n > Len(box.flux) THEN m
    ELSE SynphotLoop(SynphotStep(m, jj, obj_index, box.flux[n][1], box.flux[n][2]),
                     jj, obj_index, box, n + 1)

\* lines 981-1069
RenderSynphot(m, jj, box) == SynphotLoop(m, jj, FindObject(boxes, 1), box, 1)

\* lines 557-1069: the body of the item loop for box j
RenderBox(m, jj, spec_sort, filter_sort) ==
    LET box == boxes[jj]
        m1 == [m EXCEPT !.fs = One, !.pk = Append(@, None)]
    IN IF box.kind \in {"SpectrumBox", "ModelBox"} THEN RenderSpectrum(m1, jj, box)
       ELSE IF box.kind = "list" THEN RenderList(m1, jj, box)
       ELSE IF box.kind = "PhotometryBox" THEN RenderPhotometry(m1, jj, box)
       ELSE IF box.kind = "ObjectBox" THEN RenderObject(m1, jj, box, spec_sort, filter_sort)
       ELSE IF box.kind = "SynphotBox" THEN RenderSynphot(m1, jj, box)
       ELSE m1

\* ------------------------------------------------------------ residuals
\* ResidualsBox: photometry maps a filter to (wavelength, residual) with
\* ndim 1, or to rows of them with ndim 2; spectrum maps a name to rows
\* (wavelength, residual).  Residuals are in tenths.
NoResiduals == [given |-> FALSE, photometry |-> <<>>, spectrum |-> <<>>]
ResidualsBox(photometry, spectrum) ==
    [given |-> TRUE, photometry |-> photometry, spectrum |-> spectrum]
ResPhot1(w, z) == [nd |-> 1, w |-> <<w>>, z |-> <<z>>]
ResPhot2(w) == [nd |-> 2, w |-> [i \in 1..NMeas |-> w], z |-> [i \in 1..NMeas |-> 10 * i + 2]]

Abs(x) == IF x < 0 THEN -x ELSE x
RECURSIVE MaxAbs(_)
MaxAbs(s) == IF s = <<>> THEN 0
             ELSE LET r == MaxAbs(Tail(s)) IN IF Abs(Head(s)) > r THEN Abs(Head(s)) ELSE r
\* a residual as it reaches a draw call
ResVal(z) == IF IsNaN(z) THEN MaskedVal ELSE IF IsInf(z) THEN InfVal(z) ELSE Rat(z, 10)
ResVals(zs) == [i \in 1..Len(zs) |-> ResVal(zs[i])]
\* lines 1140-1145: res_max after np.max(np.abs(z[np.isfinite(z)])), which
\* raises on an empty selection
PhotResMax(m, zs) ==
    LET finite == SelectSeq(zs, IsFinite)
    IN IF finite = <<>> THEN Raise(m, "ValueError: zero-size array")
       ELSE [m EXCEPT !.res_max = IF MaxAbs(finite) > @ THEN MaxAbs(finite) ELSE @]
\* lines 1164-1167: res_max after np.nanmax(np.abs(z)): NaN is skipped,
\* an infinite residual is the maximum, all NaN gives NaN and no update
SpecResMax(m, zs) ==
    LET notnan == SelectSeq(zs, LAMBDA z : ~IsNaN(z))
        mx == IF \E i \in 1..Len(notnan) : IsInf(notnan[i]) THEN PosInf ELSE MaxAbs(notnan)
    IN IF notnan = <<>> THEN m
       ELSE [m EXCEPT !.res_max = IF mx > @ THEN mx ELSE @]

\* lines 1119-1138: the measurements of a 2-D photometric residual
RECURSIVE ResPhot2D(_, _, _, _, _)
ResPhot2D(m, k, item, p, i) ==
    IF i > Len(p.z) \/ m.err # "" THEN m
    ELSE LET d == Errorbar("ax3", Src(0, item, i), <<p.w[i]>>, <<ResVal(p.z[i])>>, <<>>, <<>>)
         IN IF IsList(m.pk[k].v[item])
            THEN IF i > Len(m.pk[k].v[item].v) THEN Raise(m, "IndexError")
                 ELSE LET m1 == DefaultZorderElem(m, k, item, i, "2.0")
                      IN ResPhot2D(AxCall(m1, d, EmptyDict, m1.pk[k].v[item].v[i].v),
                                   k, item, p, i + 1)
            ELSE LET m1 == DefaultZorderKey(m, k, item, "2.0")
                 IN ResPhot2D(AxCall(m1, d, EmptyDict, m1.pk[k].v[item].v), k, item, p, i + 1)

\* lines 1096-1145: one filter of residuals.photometry
ResPhotStep(m, k, item, p) ==
    IF m.err # "" THEN m
    ELSE LET m1 ==
               IF ~Truthy(m.pk[k]) \/ ~Has(m.pk[k], item)
               THEN AxCall(m, Line("ax3", Src(0, item, 0), p.w, ResVals(p.z)),
                           "marker" :> "s" @@ "ms" :> "5" @@ "linestyle" :> "none"
                           @@ "zorder" :> "2.0", EmptyDict)
               ELSE IF p.nd = 1
               THEN IF ~IsDict(m.pk[k].v[item]) THEN Raise(m, "TypeError")
                    ELSE LET m2 == DefaultZorderKey(m, k, item, "2.0")
                         IN AxCall(m2, Errorbar("ax3", Src(0, item, 1), p.w, <<ResVal(p.z[1])>>,
                                                <<>>, <<>>),
                                   EmptyDict, m2.pk[k].v[item].v)
               ELSE ResPhot2D(m, k, item, p, 1)
         IN IF m1.err # "" THEN m1 ELSE PhotResMax(m1, p.z)

RECURSIVE ResPhotLoop(_, _, _, _)
ResPhotLoop(m, k, res, n) ==
    IF n > Len(res.photometry) THEN m
    ELSE ResPhotLoop(ResPhotStep(m, k, res.photometry[n][1], res.photometry[n][2]),
                     k, res, n + 1)

\* lines 1148-1167: one spectrum of residuals.spectrum
ResSpecStep(m, k, key, rows) ==
    IF m.err # "" THEN m
    ELSE LET d == Errorbar("ax3", Src(0, key, 0), Column(rows, 1),
                           ResVals(Column(rows, 2)), <<>>, <<>>)
             m1 == IF ~Truthy(m.pk[k]) \/ ~Has(m.pk[k], key)
                   THEN AxCall(m, d, "marker" :> "o" @@ "ms" :> "2" @@ "ls" :> "none"
                                     @@ "zorder" :> "1.0", EmptyDict)
                   ELSE IF ~IsDict(m.pk[k].v[key]) THEN Raise(m, "TypeError")
                   ELSE LET m2 == DefaultZorderKey(m, k, key, "1.0")
                        IN AxCall(m2, d, EmptyDict, m2.pk[k].v[key].v)
         IN IF m1.err # "" THEN m1 ELSE SpecResMax(m1, Column(rows, 2))

RECURSIVE ResSpecLoop(_, _, _, _)
ResSpecLoop(m, k, res, n) ==
    IF n > Len(res.spectrum) THEN m
    ELSE ResSpecLoop(ResSpecStep(m, k, res.spectrum[n][1], res.spectrum[n][2]), k, res, n + 1)

\* the limit rounded down
CeilLimit_mut(res_max) == (11 * res_max) \div 100
\* math.ceil(1.1 * res_max), res_max in tenths
CeilLimit(res_max) == (11 * res_max + 99) \div 100
\* lines 1169-1172
ResLimit(res_max) == IF CeilLimit(res_max) > 10 THEN 5 ELSE CeilLimit(res_max)

HLine(ax, y) ==
    [ax |-> ax, prim |-> "axhline", src |-> Src(0, "", 0), x |-> <<>>, y |-> <<Rat(y, 1)>>,
     y2 |-> <<>>, yerr |-> <<>>, xerr |-> <<>>]

\* the +-5 lines drawn from a limit of 5 on
ResGuides_mut(m, lim) ==
    LET m1 == AxCall(m, HLine("ax3", 0), "ls" :> "--" @@ "lw" :> "0.7" @@ "color" :> "gray"
                                          @@ "zorder" :> "0.5", EmptyDict)
        five == lim >= 5 \/ (ylim_res # <<>> /\ ylim_res[1] < -5000 /\ ylim_res[2] > 5000)
        m2 == AxCall(m1, HLine("ax3", -5), "ls" :> ":" @@ "lw" :> "0.7" @@ "color" :> "gray"
                                            @@ "zorder" :> "0.5", EmptyDict)
        m3 == AxCall(m2, HLine("ax3", 5), "ls" :> ":" @@ "lw" :> "0.7" @@ "color" :> "gray"
                                           @@ "zorder" :> "0.5", EmptyDict)
    IN IF five THEN m3 ELSE m1
\* lines 1174-1180: the reference lines of the residual panel
ResGuides(m, lim) ==
    LET m1 == AxCall(m, HLine("ax3", 0), "ls" :> "--" @@ "lw" :> "0.7" @@ "color" :> "gray"
                                          @@ "zorder" :> "0.5", EmptyDict)
        five == lim > 5 \/ (ylim_res # <<>> /\ ylim_res[1] < -5000 /\ ylim_res[2] > 5000)
        m2 == AxCall(m1, HLine("ax3", -5), "ls" :> ":" @@ "lw" :> "0.7" @@ "color" :> "gray"
                                            @@ "zorder" :> "0.5", EmptyDict)
        m3 == AxCall(m2, HLine("ax3", 5), "ls" :> ":" @@ "lw" :> "0.7" @@ "color" :> "gray"
                                           @@ "zorder" :> "0.5", EmptyDict)
    IN IF five THEN m3 ELSE m1

\* ------------------------------------------------------- scale normalizer
RECURSIVE Pow10(_)
Pow10(e) == IF e = 0 THEN 1 ELSE 10 * Pow10(e - 1)
RECURSIVE Digits(_)
Digits(n) == IF n < 10 THEN 1 ELSE 1 + Digits(n \div 10)
\* a rounding up instead of down
FloorLog10_mut(u) == Digits(u) - 3
\* math.floor(math.log10(u)) for u > 0 given in thousandths
FloorLog10(u) == Digits(u) - 4
\* 10.0**e
TenTo(e) == IF e >= 0 THEN Rat(Pow10(e), 1) ELSE Rat(1, Pow10(-e))
NoExp == 99
NoFilters == <<NoneStr>>

\* ------------------------------------------------------------------ legend
NoLegend == [t |-> "none", v |-> <<>>]
LegendLoc(loc) == [t |-> "loc", v |-> <<loc>>]
\* a list of two entries, "" for None
LegendPair(a, b) == [t |-> "list", v |-> <<a, b>>]

Labelled(d) == d.ax = "ax1" /\ "label" \in DOMAIN d.kw /\ d.kw["label"] # NoneStr
\* ax1.get_legend_handles_labels()
Handles(dr) == SelectSeq(dr, Labelled)
IsLine2D(d) == d.prim = "plot"
IsErrorbarContainer(d) == d.prim = "errorbar"
LabelsOf(hs) == [i \in 1..Len(hs) |-> hs[i].kw["label"]]

\* the model legend replaced by the data legend and not added back
ComposeLegend_mut(dr) ==
    LET handles == Handles(dr)
        model_handles == SelectSeq(handles, IsLine2D)
        data_handles == SelectSeq(handles, IsErrorbarContainer)
        leg_1 == IF legend.v[1] # "" THEN <<[group |-> "model", labels |-> LabelsOf(model_handles)]>>
                 ELSE <<>>
        leg_2 == IF legend.v[2] # "" THEN <<[group |-> "data", labels |-> LabelsOf(data_handles)]>>
                 ELSE <<>>
    IN IF handles = <<>> \/ legend.t = "none" THEN <<>>
       ELSE IF legend.t = "list" THEN (IF leg_2 # <<>> THEN leg_2 ELSE leg_1)
       ELSE <<[group |-> "all", labels |-> LabelsOf(handles)]>>
\* lines 1197-1255: the legends put on the main panel, in drawing order
ComposeLegend(dr) ==
    LET handles == Handles(dr)
        model_handles == SelectSeq(handles, IsLine2D)
        data_handles == SelectSeq(handles, IsErrorbarContainer)
        leg_1 == IF legend.v[1] # "" THEN <<[group |-> "model", labels |-> LabelsOf(model_handles)]>>
                 ELSE <<>>
        leg_2 == IF legend.v[2] # "" THEN <<[group |-> "data", labels |-> LabelsOf(data_handles)]>>
                 ELSE <<>>
    IN IF handles = <<>> \/ legend.t = "none" THEN <<>>
       ELSE IF legend.t = "list" THEN leg_2 \o leg_1
       ELSE <<[group |-> "all", labels |-> LabelsOf(handles)]>>

LegendWarnings(dr) ==
    IF Handles(dr) = <<>> \/ legend.t # "list" THEN 0
    ELSE Len(SelectSeq(Handles(dr), LAMBDA d : ~IsLine2D(d) /\ ~IsErrorbarContainer(d)))

\* ------------------------------------------------------------ the figure
\* the two-row ratios exchanged
GridOf_mut(res, filt) ==
    IF res /\ filt THEN [rows |-> <<"ax2", "ax1", "ax3">>, ratios |-> <<1, 3, 1>>]
    ELSE IF res THEN [rows |-> <<"ax1", "ax3">>, ratios |-> <<1, 4>>]
    ELSE IF filt THEN [rows |-> <<"ax2", "ax1">>, ratios |-> <<4, 1>>]
    ELSE [rows |-> <<"ax1">>, ratios |-> <<1>>]
\* lines 257-291: the rows of the grid, top to bottom, and their heights
GridOf(res, filt) ==
    IF res /\ filt THEN [rows |-> <<"ax2", "ax1", "ax3">>, ratios |-> <<1, 3, 1>>]
    ELSE IF res THEN [rows |-> <<"ax1", "ax3">>, ratios |-> <<4, 1>>]
    ELSE IF filt THEN [rows |-> <<"ax2", "ax1">>, ratios |-> <<1, 4>>]
    ELSE [rows |-> <<"ax1">>, ratios |-> <<1>>]

NoGrid == [rows |-> <<>>, ratios |-> <<>>]
HasPanel(ax) == \E i \in 1..Len(panels.rows) : panels.rows[i] = ax
NoLimits == [ax \in {"ax1", "ax2", "ax3"} |-> <<>>]
NoColors == [ax \in {"ax1", "ax2", "ax3"} |-> 0]

\* what a finished call leaves for the caller to see
Outcome ==
    [pc |-> pc, err |-> err, draws |-> draws, panels |-> panels, axlim |-> axlim,
     aylim |-> aylim, ylabel |-> ylabel, legends |-> legends, shown |-> shown,
     saved |-> saved]

Heap == [pk |-> plot_kwargs, cd |-> caller_dicts, al |-> alias, dr |-> draws,
         nc |-> ncolor, fs |-> One, err |-> "", res_max |-> 0]

\* ----------------------------------------------------------- the inputs
\* The caller's arguments: a list of at most MaxItems boxes taken from
\* pool (each with the override written for it), the way plot_kwargs is
\* passed (mode: "none" = not given, "match" = one entry per box,
\* "extra" = one entry too many) and the configuration.
InitOf(pool, nmax, modes, resSet, filtSet, quantSet, ylimSet, xlimSet, scaleSet, envSet, legSet, ylimResSet, outSet) ==
    /\ \E n \in 0..nmax : \E sel \in [1..n -> 1..Len(pool)] : \E mode \in modes :
          /\ boxes = [i \in 1..n |-> pool[sel[i]].box]
          /\ kw_given = (mode # "none")
          /\ orig_kwargs = IF mode = "none" THEN <<>>
                           ELSE IF mode = "match" THEN [i \in 1..n |-> pool[sel[i]].kw]
                           ELSE Append([i \in 1..n |-> pool[sel[i]].kw], None)
    /\ plot_kwargs = orig_kwargs
    /\ caller_dicts = orig_kwargs
    /\ alias = 1..Len(orig_kwargs)
    /\ residuals \in resSet
    /\ filters \in filtSet
    /\ quantity \in quantSet
    /\ ylim \in ylimSet
    /\ xlim \in xlimSet
    /\ scale \in scaleSet
    /\ envelope \in envSet
    /\ legend \in legSet
    /\ ylim_res \in ylimResSet
    /\ output \in outSet
    /\ pc = "idle" /\ err = "" /\ ncalls = 0 /\ j = 1
    /\ panels = NoGrid /\ axlim = NoLimits /\ aylim = NoLimits
    /\ ylabel = "" /\ exponent = NoExp /\ scaling = Rat(1, 1)
    /\ res_lim = -1 /\ legends = <<>> /\ warned = 0
    /\ draws = <<>> /\ ncolor = NoColors /\ shown = 0 /\ saved = 0 /\ history = <<>>

\* at most MaxItems boxes, no explicit residual range, the figure displayed
InitWith(pool, modes, resSet, filtSet, quantSet, ylimSet, xlimSet, scaleSet, envSet, legSet) ==
    InitOf(pool, MaxItems, modes, resSet, filtSet, quantSet, ylimSet, xlimSet, scaleSet,
           envSet, legSet, {<<>>}, {NoneStr})

\* ------------------------------------------------------------ the actions
\* a check that only catches a list that is too short
CountMismatch_mut == kw_given /\ Len(boxes) > Len(plot_kwargs)
\* lines 206: len(boxes) != len(plot_kwargs) for a given plot_kwargs
CountMismatch == kw_given /\ Len(boxes) # Len(plot_kwargs)

\* lines 181-210: entry of plot_spectrum up to the count check.  A new
\* call starts when no call is running; the figure of the call is new.
Call ==
    /\ pc \in {"idle", "done", "error"}
    /\ ncalls < MaxCalls
    /\ ncalls' = ncalls + 1
    /\ history' = IF pc = "idle" THEN history ELSE Append(history, Outcome)
    /\ plot_kwargs' = IF kw_given THEN plot_kwargs ELSE <<>>
    /\ IF CountMismatch
       THEN pc' = "error" /\ err' = "ValueError: count"
       ELSE pc' = "layout" /\ err' = ""
    /\ j' = 1 /\ panels' = NoGrid /\ axlim' = NoLimits /\ aylim' = NoLimits
    /\ ylabel' = "" /\ exponent' = NoExp /\ scaling' = Rat(1, 1)
    /\ res_lim' = -1 /\ legends' = <<>> /\ warned' = 0
    /\ draws' = <<>> /\ ncolor' = NoColors /\ shown' = 0 /\ saved' = 0
    /\ UNCHANGED <<inputs, caller_dicts, alias>>

\* lines 257-291: the grid of panels
Layout ==
    /\ pc = "layout"
    /\ panels' = GridOf(residuals.given, filters # NoFilters)
    /\ pc' = "axes"
    /\ UNCHANGED <<inputs, plot_kwargs, caller_dicts, alias, err, ncalls, j, axlim, aylim,
                   ylabel, exponent, scaling, res_lim, legends, warned, draws, ncolor,
                   shown, saved, history>>

\* lines 449-452: the x-range of the main panel
MainXlim == IF xlim = <<>> THEN <<500, 5000>> ELSE xlim
\* a residual panel left at the default range
SharedXlim_mut(ax, xl) ==
    IF ~HasPanel(ax) THEN <<>> ELSE IF ax = "ax3" THEN <<500, 5000>> ELSE xl
\* lines 521-528: the x-range given to panel ax
SharedXlim(ax, xl) == IF HasPanel(ax) THEN xl ELSE <<>>

YName == IF quantity = "flux density" THEN "F_lambda" ELSE "lambda F_lambda"

\* lines 449-528: x-range, y-range, the shared scaling and the y-label
Axes ==
    /\ pc = "axes"
    /\ LET xl == MainXlim
           logfails == quantity # "magnitude" /\ ylim # <<>> /\ scale[2] = "linear"
                       /\ ylim[2] <= 0
           exp == IF quantity # "magnitude" /\ ylim # <<>> /\ scale[2] = "linear"
                  THEN FloorLog10(ylim[2]) ELSE NoExp
           sc == IF exp = NoExp THEN Rat(1, 1) ELSE TenTo(exp)
           yl == IF ylim = <<>> THEN <<>>
                 ELSE <<Rat(ylim[1] * sc.den, 1000 * sc.num), Rat(ylim[2] * sc.den, 1000 * sc.num)>>
           zero == quantity # "magnitude" /\ ylim # <<>> /\ ylim[1] < 0
           m == AxCall(Heap, HLine("ax1", 0), "ls" :> "--" @@ "lw" :> "0.7"
                         @@ "color" :> "gray" @@ "zorder" :> "0.5", EmptyDict)
       IN IF logfails
          THEN /\ pc' = "error" /\ err' = "ValueError: math domain error"
               /\ axlim' = [axlim EXCEPT !["ax1"] = xl]
               /\ aylim' = [aylim EXCEPT !["ax1"] = <<Rat(ylim[1], 1000), Rat(ylim[2], 1000)>>]
               /\ UNCHANGED <<ylabel, exponent, scaling, draws>>
          ELSE /\ pc' = "items" /\ err' = ""
               /\ axlim' = [ax \in {"ax1", "ax2", "ax3"} |-> SharedXlim(ax, xl)]
               /\ aylim' = [ax \in {"ax1", "ax2", "ax3"} |->
                              IF ax = "ax1" THEN yl
                              ELSE IF ax = "ax2" /\ HasPanel(ax) THEN <<Rat(0, 1), Rat(1, 1)>>
                              ELSE <<>>]
               /\ exponent' = exp
               /\ scaling' = sc
               /\ ylabel' = IF quantity = "magnitude" THEN "Contrast (mag)"
                            ELSE IF exp = NoExp THEN YName
                            ELSE YName \o " 10^" \o ToString(exp)
               /\ draws' = IF zero THEN m.dr ELSE draws
    /\ UNCHANGED <<inputs, plot_kwargs, caller_dicts, alias, ncalls, j, panels, res_lim,
                   legends, warned, ncolor, shown, saved, history>>

\* lines 557-1069: one pass of the item loop
RenderItem ==
    /\ pc = "items"
    /\ j <= Len(boxes)
    /\ \E spec_sort \in SpecSorts(boxes[j]) : \E filter_sort \in FilterSorts(boxes[j]) :
       LET m == RenderBox(Heap, j, spec_sort, filter_sort)
       IN /\ plot_kwargs' = m.pk
          /\ caller_dicts' = m.cd
          /\ alias' = m.al
          /\ draws' = m.dr
          /\ ncolor' = m.nc
          /\ err' = m.err
          /\ pc' = IF m.err # "" THEN "error" ELSE "items"
          /\ j' = IF m.err # "" THEN j ELSE j + 1
    /\ UNCHANGED <<inputs, ncalls, panels, axlim, aylim, ylabel, exponent, scaling, res_lim,
                   legends, warned, shown, saved, history>>

RECURSIVE FilterLoop(_, _)
FilterLoop(m, i) ==
    IF i > Len(filters) THEN m
    ELSE FilterLoop(AxCall(m, Line("ax2", Src(0, filters[i], i),
                                   Column(get_filter(filters[i]), 1),
                                   [s \in 1..Len(get_filter(filters[i])) |->
                                       Rat(get_filter(filters[i])[s][2], 1000)]),
                           "lw" :> "0.7" @@ "color" :> "tab:gray" @@ "zorder" :> "1.0",
                           EmptyDict), i + 1)

\* lines 1071-1076: the filter profiles, after the last box
FilterCurves ==
    /\ pc = "items"
    /\ j > Len(boxes)
    /\ draws' = IF filters # NoFilters THEN FilterLoop(Heap, 1).dr ELSE draws
    /\ pc' = "residuals"
    /\ UNCHANGED <<inputs, plot_kwargs, caller_dicts, alias, err, ncalls, j, panels, axlim,
                   aylim, ylabel, exponent, scaling, res_lim, legends, warned, ncolor,
                   shown, saved, history>>

\* lines 1078-1186: the residual panel
Residuals ==
    /\ pc = "residuals"
    /\ LET obj_index == FindObject(boxes, 1)
           m1 == ResSpecLoop(ResPhotLoop(Heap, obj_index, residuals, 1), obj_index, residuals, 1)
           lim == ResLimit(m1.res_max)
           \* math.ceil of an infinite float raises
           m2 == IF m1.err = "" /\ m1.res_max = PosInf THEN Raise(m1, "OverflowError")
                 ELSE ResGuides(m1, lim)
       IN IF ~residuals.given
          THEN /\ pc' = "legend"
               /\ UNCHANGED <<plot_kwargs, caller_dicts, alias, err, draws, ncolor, res_lim, aylim>>
          ELSE IF obj_index = 0
          THEN /\ pc' = "error" /\ err' = "ValueError: ObjectBox not found"
               /\ UNCHANGED <<plot_kwargs, caller_dicts, alias, draws, ncolor, res_lim, aylim>>
          ELSE /\ plot_kwargs' = m2.pk
               /\ caller_dicts' = m2.cd
               /\ alias' = m2.al
               /\ draws' = m2.dr
               /\ ncolor' = m2.nc
               /\ err' = m2.err
               /\ pc' = IF m2.err # "" THEN "error" ELSE "legend"
               /\ res_lim' = IF m2.err # "" THEN res_lim ELSE lim
               /\ aylim' = IF m2.err # "" THEN aylim
                           ELSE [aylim EXCEPT !["ax3"] =
                                   IF ylim_res = <<>> THEN <<Rat(-lim, 1), Rat(lim, 1)>>
                                   ELSE <<Rat(ylim_res[1], 1000), Rat(ylim_res[2], 1000)>>]
    /\ UNCHANGED <<inputs, ncalls, j, panels, axlim, ylabel, exponent, scaling, legends,
                   warned, shown, saved, history>>

\* lines 1188-1255: the y-range of the filter panel and the legends
Legend ==
    /\ pc = "legend"
    /\ aylim' = IF filters # NoFilters
                THEN [aylim EXCEPT !["ax2"] = <<Rat(0, 1), Rat(11, 10)>>] ELSE aylim
    /\ legends' = ComposeLegend(draws)
    /\ warned' = LegendWarnings(draws)
    /\ pc' = "output"
    /\ UNCHANGED <<inputs, plot_kwargs, caller_dicts, alias, err, ncalls, j, panels, axlim,
                   ylabel, exponent, scaling, res_lim, draws, ncolor, shown, saved, history>>

\* the figure displayed whether or not it is saved
Output_mut ==
    /\ pc = "output"
    /\ shown' = shown + 1
    /\ saved' = IF output = NoneStr THEN saved ELSE saved + 1
    /\ pc' = "done"
    /\ UNCHANGED <<inputs, plot_kwargs, caller_dicts, alias, err, ncalls, j, panels, axlim,
                   aylim, ylabel, exponent, scaling, res_lim, legends, warned, draws,
                   ncolor, history>>
\* lines 1322-1328: plt.show() or plt.savefig(output), then return fig
Output ==
    /\ pc = "output"
    /\ IF output = NoneStr
       THEN shown' = shown + 1 /\ saved' = saved
       ELSE saved' = saved + 1 /\ shown' = shown
    /\ pc' = "done"
    /\ UNCHANGED <<inputs, plot_kwargs, caller_dicts, alias, err, ncalls, j, panels, axlim,
                   aylim, ylabel, exponent, scaling, res_lim, legends, warned, draws,
                   ncolor, history>>

Next ==
    \/ Call
    \/ Layout
    \/ Axes
    \/ RenderItem
    \/ FilterCurves
    \/ Residuals
    \/ Legend
    \/ Output

\* ------------------------------------------------------ the boxes offered
ObjFull == ObjectBox(<<<<"sp1", ObjSpectrum(900)>>>>,
                     <<<<"F2", Phot2>>, <<"F1", Phot1(10, 1)>>>>)
Styles(n) == List([i \in 1..n |-> Style(ColorCycle[i + 3])])

Pool ==
    << [box |-> ModelBox(1000, 3, "model"), kw |-> None],
       [box |-> SpectrumBox(1100, 3), kw |-> Dict("color" :> "red" @@ "label" :> "a")],
       [box |-> SampleList(1500), kw |-> Dict("color" :> "blue" @@ "alpha" :> "0.3")],
       [box |-> PhotometryBox, kw |-> Dict("label" :> "phot")],
       [box |-> ObjFull, kw |-> None],
       [box |-> ObjFull, kw |-> Dict("sp1" :> MarkerStyle("green") @@ "F2" :> Styles(NMeas))],
       [box |-> SynphotBox(<<<<"F1", 8>>>>), kw |-> None] >>

Res1 == ResidualsBox(<<<<"F1", ResPhot1(1200, -32)>>, <<"F2", ResPhot2(2200)>>>>,
                     <<<<"sp1", <<<<900, 49>>, <<1800, 10>>>>>>>>)

Init ==
    InitWith(Pool, {"none", "match", "extra"}, {NoResiduals, Res1}, {<<"F1", "F2">>},
             {"flux density", "flux"}, {<<1, 500000>>}, {<<>>},
             {<<"linear", "linear">>}, BOOLEAN, {LegendLoc("best")})

Spec == Init /\ [][Next]_vars


\* The configuration varied over a short list of boxes without overrides.
PoolConfig ==
    << [box |-> SpectrumBox(1000, 3), kw |-> None],
       [box |-> ObjectBox(<<>>, <<<<"F1", Phot1(10, 1)>>>>), kw |-> None] >>

InitConfig ==
    InitWith(PoolConfig, {"none"}, {NoResiduals, Res1}, {NoFilters, <<"F1", "F2">>},
             {"flux density", "flux", "magnitude"},
             {<<>>, <<1, 500000>>, <<-2000, 9999>>, <<100, 999>>, <<-5000, 0>>},
             {<<>>, <<1000, 3000>>},
             {<<"linear", "linear">>, <<"linear", "log">>}, {FALSE}, {NoLegend})

SpecConfig == InitConfig /\ [][Next]_vars

\* An ObjectBox with a filter measured NMeas times, and the overrides a
\* caller may write for that filter.
PoolMulti ==
    << [box |-> ObjFull, kw |-> Dict("F2" :> Style("red"))],
       [box |-> ObjFull, kw |-> Dict("F2" :> Styles(NMeas - 1))],
       [box |-> ObjFull, kw |-> Dict("F2" :> Styles(NMeas))],
       [box |-> ObjFull, kw |-> Dict("F2" :> Styles(NMeas + 1))],
       [box |-> SynphotBox(<<<<"F2", 8>>>>), kw |-> None] >>

InitMulti ==
    InitWith(PoolMulti, {"none", "match"}, {NoResiduals, Res1}, {NoFilters, <<"F1">>},
             {"flux density", "flux"}, {<<>>}, {<<>>},
             {<<"linear", "linear">>}, {FALSE}, {NoLegend, LegendPair("upper left", "")})

SpecMulti == InitMulti /\ [][Next]_vars

\* Residuals of an ObjectBox with several maxima, some samples not finite,
\* with and without an explicit range of the residual panel.
PoolResid ==
    << [box |-> ObjFull, kw |-> None],
       [box |-> ObjFull, kw |-> Dict("F1" :> Style("red"))] >>

ResPhotOnly(z) == ResidualsBox(<<<<"F1", ResPhot1(1200, z)>>>>, <<>>)
ResMixed ==
    ResidualsBox(<<<<"F2", [nd |-> 2, w |-> [i \in 1..NMeas |-> 2200],
                           z |-> [i \in 1..NMeas |-> IF i = 1 THEN PosInf ELSE 10 * i + 2]]>>>>,
                 <<<<"sp1", <<<<900, NaN>>, <<1800, -60>>>>>>>>)
ResSpecInf == ResidualsBox(<<>>, <<<<"sp1", <<<<900, NegInf>>, <<1800, 10>>>>>>>>)

InitResid ==
    InitOf(PoolResid, MaxItems, {"none", "match"},
           {NoResiduals, Res1, ResPhotOnly(45), ResPhotOnly(-90), ResPhotOnly(91),
            ResPhotOnly(0), ResPhotOnly(NaN), ResMixed, ResSpecInf},
           {NoFilters}, {"flux density"}, {<<>>}, {<<>>}, {<<"linear", "linear">>}, {FALSE},
           {NoLegend}, {<<>>, <<-6000, 6000>>, <<-5000, 5000>>, <<-3000, 8000>>},
           {NoneStr, "fig.pdf"})

SpecResid == InitResid /\ [][Next]_vars

\* Synthetic photometry next to one or two ObjectBoxes whose overrides
\* differ; one more box than MaxItems so that a SynphotBox can stand
\* before, between or after two ObjectBoxes.
PoolSynphot ==
    << [box |-> ObjFull, kw |-> None],
       [box |-> ObjFull,
        kw |-> Dict("F1" :> Dict("color" :> "red" @@ "label" :> "obs" @@ "mfc" :> "red")
                    @@ "F2" :> Styles(NMeas))],
       [box |-> ObjFull,
        kw |-> Dict("F1" :> Style("blue")
                    @@ "F2" :> List([i \in 1..NMeas |->
                                      Dict("color" :> "purple" @@ "mfc" :> "purple")]))],
       [box |-> SynphotBox(<<<<"F1", 8>>, <<"F2", 9>>>>), kw |-> None],
       [box |-> SynphotBox(<<<<"F1", 8>>, <<"F2", 9>>>>),
        kw |-> Dict("F1" :> Dict("color" :> "green" @@ "marker" :> "D"))] >>

InitSynphot ==
    InitOf(PoolSynphot, MaxItems + 1, {"none", "match"}, {NoResiduals, Res1}, {NoFilters},
           {"flux density"}, {<<>>}, {<<>>}, {<<"linear", "linear">>}, {FALSE},
           {NoLegend}, {<<>>}, {NoneStr})

SpecSynphot == InitSynphot /\ [][Next]_vars

\* Boxes whose draw calls carry legend labels on lines, error bars and
\* bands, with every form of the legend argument and both outputs.
PoolLegend ==
    << [box |-> ModelBox(1000, 3, "model"), kw |-> None],
       [box |-> SpectrumBox(1100, 3), kw |-> Dict("color" :> "red" @@ "label" :> "a")],
       [box |-> SampleList(1500), kw |-> Dict("color" :> "blue" @@ "label" :> "band")],
       [box |-> PhotometryBox, kw |-> Dict("label" :> "phot")],
       [box |-> ObjectBox(<<<<"sp1", ObjSpectrum(900)>>>>, <<<<"F1", Phot1(10, 1)>>>>),
        kw |-> Dict("sp1" :> Dict("color" :> "green" @@ "label" :> "spec")
                    @@ "F1" :> Dict("color" :> "green" @@ "label" :> "obs"))] >>

InitLegend ==
    InitOf(PoolLegend, MaxItems, {"none", "match"}, {NoResiduals, Res1}, {NoFilters},
           {"flux density"}, {<<>>}, {<<>>}, {<<"linear", "linear">>}, BOOLEAN,
           {NoLegend, LegendLoc("best"), LegendPair("upper left", "lower right"),
            LegendPair("upper left", ""), LegendPair("", "lower right"), LegendPair("", "")},
           {<<>>}, {NoneStr, "fig.pdf"})

SpecLegend == InitLegend /\ [][Next]_vars

\* Spectra whose first flux sample is NaN, +inf or -inf, next to a finite one.
FluxWith(x) == [i \in 1..NSamples |-> IF i = 1 THEN x ELSE 3 + i]
SpectrumWith(x) == [kind |-> "SpectrumBox", wavelength |-> Grid(1000), flux |-> FluxWith(x)]
ListWith(x) ==
    [kind |-> "list",
     items |-> [i \in 1..2 |-> [kind |-> "ModelBox", wavelength |-> Grid(1500),
                                flux |-> IF i = 1 THEN FluxWith(x) ELSE FluxOf(20),
                                model |-> "sample"]]]
ObjWith(x) ==
    ObjectBox(<<<<"sp1", [i \in 1..NSamples |-> <<900 * i, IF i = 1 THEN x ELSE 5 + i, 1>>]>>>>,
              <<>>)
PoolMask ==
    << [box |-> SpectrumBox(1100, 3), kw |-> None],
       [box |-> SpectrumWith(NaN), kw |-> None],
       [box |-> SpectrumWith(PosInf), kw |-> None],
       [box |-> SpectrumWith(NegInf), kw |-> None],
       [box |-> ListWith(NaN), kw |-> None],
       [box |-> ListWith(PosInf), kw |-> None],
       [box |-> ObjWith(NaN), kw |-> None],
       [box |-> ObjWith(NegInf), kw |-> None] >>

InitMask ==
    InitOf(PoolMask, MaxItems, {"none"}, {NoResiduals}, {NoFilters},
           {"flux density", "flux"}, {<<>>, <<1, 500000>>}, {<<>>}, {<<"linear", "linear">>},
           {FALSE}, {NoLegend}, {<<>>}, {NoneStr})

SpecMask == InitMask /\ [][Next]_vars

\* Every kind of box, with and without an override; no override names a
\* zorder.  ObjLimit holds a photometric point whose error is zero.
ObjLimit == ObjectBox(<<<<"sp1", ObjSpectrum(900)>>>>, <<<<"F1", Phot1(10, 0)>>>>)
PoolKinds ==
    << [box |-> ObjLimit, kw |-> None],
       [box |-> ObjectBox(<<>>, <<<<"F1", Phot1(10, 1)>>>>), kw |-> None],
       [box |-> ObjLimit, kw |-> Dict("sp1" :> Style("green") @@ "F1" :> Style("red"))],
       [box |-> ObjFull, kw |-> Dict("sp1" :> MarkerStyle("green") @@ "F1" :> Style("red"))],
       [box |-> SynphotBox(<<<<"F1", 8>>>>), kw |-> None],
       [box |-> SampleList(1500), kw |-> None],
       [box |-> SpectrumBox(1100, 3), kw |-> Dict("color" :> "red")],
       [box |-> PhotometryBox, kw |-> None],
       [box |-> PhotometryBox, kw |-> Dict("color" :> "blue")] >>

InitKinds ==
    InitOf(PoolKinds, MaxItems, {"none", "match"}, {NoResiduals}, {NoFilters},
           {"flux density", "flux"}, {<<>>}, {<<>>}, {<<"linear", "linear">>}, BOOLEAN,
           {NoLegend}, {<<>>}, {NoneStr})

SpecKinds == InitKinds /\ [][Next]_vars

\* ObjectBoxes whose spectra and filters are not stored in ascending order
\* of wavelength; the spectra a and b start at the same wavelength.
PoolOrder ==
    << [box |-> ObjectBox(<<<<"a", ObjSpectrum(900)>>, <<"b", ObjSpectrum(900)>>,
                            <<"c", ObjSpectrum(500)>>>>,
                          <<<<"F2", Phot1(20, 2)>>, <<"F1", Phot1(10, 1)>>>>),
        kw |-> None],
       [box |-> ObjectBox(<<<<"b", ObjSpectrum(900)>>, <<"c", ObjSpectrum(500)>>>>,
                          <<<<"F3", Phot1(30, 3)>>, <<"F1", Phot1(10, 1)>>,
                            <<"F2", Phot1(20, 2)>>>>),
        kw |-> Dict("b" :> MarkerStyle("green") @@ "F3" :> Style("red"))],
       [box |-> ObjectBox(<<<<"c", ObjSpectrum(500)>>, <<"d", ObjSpectrum(700)>>>>,
                          <<<<"F1", Phot1(10, 1)>>>>),
        kw |-> None],
       [box |-> SpectrumBox(1100, 3), kw |-> None] >>

InitOrder ==
    InitOf(PoolOrder, MaxItems, {"none", "match"}, {NoResiduals}, {NoFilters},
           {"flux density", "flux"}, {<<>>}, {<<>>}, {<<"linear", "linear">>}, {FALSE},
           {NoLegend}, {<<>>}, {NoneStr})

SpecOrder == InitOrder /\ [][Next]_vars

\* lists of one, two and three samples, not stored in ascending order of flux
PoolSet ==
    << [box |-> SampleSet(1500, <<30, 10, 20>>), kw |-> None],
       [box |-> SampleSet(1200, <<40, 10>>), kw |-> Dict("color" :> "blue" @@ "alpha" :> "0.3")],
       [box |-> SampleSet(1100, <<7>>), kw |-> None],
       [box |-> SampleSet(1300, <<10, 50, 20>>), kw |-> Style("green")],
       [box |-> SpectrumBox(1100, 3), kw |-> None] >>

InitSet ==
    InitOf(PoolSet, MaxItems, {"none", "match"}, {NoResiduals}, {NoFilters},
           {"flux density", "flux"}, {<<>>}, {<<>>}, {<<"linear", "linear">>}, BOOLEAN,
           {NoLegend}, {<<>>}, {NoneStr})

SpecSet == InitSet /\ [][Next]_vars

\* An ObjectBox without override, with an override for one key, and with
\* overrides that name no colour, next to a spectrum drawn before it, a
\* SynphotBox and residuals for its keys.
PoolStyle ==
    << [box |-> SpectrumBox(1100, 3), kw |-> None],
       [box |-> ObjFull, kw |-> None],
       [box |-> ObjFull, kw |-> Dict("sp1" :> Style("green"))],
       [box |-> ObjFull, kw |-> Dict("sp1" :> Dict("marker" :> "o")
                                     @@ "F1" :> Dict("marker" :> "o"))],
       [box |-> SynphotBox(<<<<"F1", 8>>, <<"F2", 9>>>>), kw |-> None] >>

InitStyle ==
    InitOf(PoolStyle, MaxItems, {"none", "match"}, {NoResiduals, Res1}, {NoFilters},
           {"flux density"}, {<<>>}, {<<>>}, {<<"linear", "linear">>}, {FALSE},
           {NoLegend}, {<<>>}, {NoneStr})

SpecStyle == InitStyle /\ [][Next]_vars

\* ================================================================ claims
PostLayout == pc \in {"axes", "items", "residuals", "legend", "output", "done"}
PostAxes == pc \in {"items", "residuals", "legend", "output", "done"}
InRows(ax) == \E i \in 1..Len(panels.rows) : panels.rows[i] = ax
NoObjectBox == \A i \in 1..Len(boxes) : boxes[i].kind # "ObjectBox"

\* C1: a call that is entered with a plot_kwargs list whose length differs
\* from the number of boxes ends at once with the count error: no panel
\* has been created, no draw call issued and nothing shown, and it stays so.
C1_CountMismatchFailsFirst ==
    /\ [][(ncalls' = ncalls + 1 /\ kw_given /\ Len(plot_kwargs) # Len(boxes))
            => (pc' = "error" /\ err' = "ValueError: count" /\ panels' = NoGrid
                /\ draws' = <<>> /\ shown' = 0 /\ saved' = 0)]_vars
    /\ []((pc = "error" /\ err = "ValueError: count")
            => (panels = NoGrid /\ draws = <<>> /\ shown = 0 /\ saved = 0))

C1_Witness ==
    /\ ncalls = 1 /\ kw_given /\ Len(orig_kwargs) = Len(boxes) + 1
    /\ pc = "error" /\ err = "ValueError: count" /\ panels = NoGrid /\ draws = <<>>

\* C2 (as claimed): when residuals are requested and no ObjectBox is among
\* the boxes, the call never completes and no draw call is ever issued.
C2_NoDrawBeforeResidualError ==
    (ncalls >= 1 /\ residuals.given /\ NoObjectBox /\ ~(kw_given /\ pc = "error" /\ err = "ValueError: count"))
        => (pc # "done" /\ draws = <<>>)

\* C3 (as claimed): the dictionaries the caller passed in plot_kwargs hold
\* at every moment exactly the keys and values they held when passed.
C3_CallerDictsUnchanged == caller_dicts = orig_kwargs

\* C4 (as claimed): a second call with the same objects ends as the first
\* one did: it succeeds if the first did and issues the same draw calls.
C4_SecondCallSame ==
    (ncalls = 2 /\ pc \in {"done", "error"} /\ Len(history) = 1 /\ history[1].pc = "done")
        => (pc = "done" /\ draws = history[1].draws /\ legends = history[1].legends)

\* C5: when the item loop reaches an ObjectBox whose override holds an entry
\* for a filter with a 2-D flux of N measurements: a plain dict makes the
\* step end in the ValueError asking for a list; a list of exactly N dicts
\* makes the step succeed with one new error-bar call per measurement i,
\* carrying every keyword of list element i.
C5_MultiMeasurementStyles ==
    [][(pc = "items" /\ j <= Len(boxes) /\ boxes[j].kind = "ObjectBox" /\ j <= Len(plot_kwargs))
        => \A n \in 1..Len(boxes[j].flux) :
             LET key == boxes[j].flux[n][1]
                 p == boxes[j].flux[n][2]
             IN (p.nd = 2 /\ Has(plot_kwargs[j], key)) =>
                  /\ IsDict(plot_kwargs[j].v[key])
                       => (pc' = "error" /\ err' = "ValueError: list required")
                  /\ (IsList(plot_kwargs[j].v[key]) /\ Len(plot_kwargs[j].v[key].v) = Len(p.f))
                       => /\ pc' = "items" /\ err' = "" /\ j' = j + 1
                          /\ \A i \in 1..Len(p.f) :
                               /\ Cardinality({q \in 1..Len(draws') : draws'[q].src = Src(j, key, i)}) = 1
                               /\ \E q \in (Len(draws) + 1)..Len(draws') :
                                    /\ draws'[q].src = Src(j, key, i)
                                    /\ draws'[q].ax = "ax1" /\ draws'[q].prim = "errorbar"
                                    /\ \A k \in DOMAIN plot_kwargs[j].v[key].v[i].v :
                                         /\ k \in DOMAIN draws'[q].kw
                                         /\ draws'[q].kw[k] = plot_kwargs[j].v[key].v[i].v[k]]_vars

C5_Witness ==
    /\ ncalls = 1 /\ pc = "done" /\ kw_given
    /\ \E q \in 1..Len(draws) :
         /\ draws[q].src.key = "F2" /\ draws[q].src.i = NMeas /\ draws[q].ax = "ax1"
         /\ IsList(orig_kwargs[draws[q].src.j].v["F2"])
         /\ Len(orig_kwargs[draws[q].src.j].v["F2"].v) = NMeas
         /\ draws[q].color = ColorCycle[NMeas + 3]

\* C6 (as claimed): no measurement of a filter with N stacked measurements
\* is drawn from an override list whose length differs from N.
C6_NoDrawFromWrongLength ==
    \A q \in 1..Len(draws) :
        LET d == draws[q]
        IN ~(/\ d.ax = "ax1" /\ d.src.j >= 1 /\ d.src.i >= 1 /\ kw_given
             /\ boxes[d.src.j].kind = "ObjectBox"
             /\ Has(orig_kwargs[d.src.j], d.src.key)
             /\ IsList(orig_kwargs[d.src.j].v[d.src.key])
             /\ \E n \in 1..Len(boxes[d.src.j].flux) :
                  /\ boxes[d.src.j].flux[n][1] = d.src.key
                  /\ boxes[d.src.j].flux[n][2].nd = 2
                  /\ Len(boxes[d.src.j].flux[n][2].f) # Len(orig_kwargs[d.src.j].v[d.src.key].v))

\* C7: once the grid exists it is the row of the table chosen by the two
\* booleans: residuals and filters give filter/main/residual at 1:3:1,
\* residuals alone main/residual at 4:1, filters alone filter/main at 1:4,
\* neither a single main panel; a filter panel exists iff filters were
\* given and a residual panel iff residuals were given.
C7_PanelGrid ==
    LET r == residuals.given
        f == filters # NoFilters
    IN /\ PostLayout => panels # NoGrid
       /\ panels # NoGrid =>
            /\ (r /\ f) => panels = [rows |-> <<"ax2", "ax1", "ax3">>, ratios |-> <<1, 3, 1>>]
            /\ (r /\ ~f) => panels = [rows |-> <<"ax1", "ax3">>, ratios |-> <<4, 1>>]
            /\ (~r /\ f) => panels = [rows |-> <<"ax2", "ax1">>, ratios |-> <<1, 4>>]
            /\ (~r /\ ~f) => panels.rows = <<"ax1">>
            /\ InRows("ax1") /\ (InRows("ax2") <=> f) /\ (InRows("ax3") <=> r)

C7_Witness ==
    /\ pc = "done" /\ residuals.given /\ filters = NoFilters
    /\ panels = [rows |-> <<"ax1", "ax3">>, ratios |-> <<4, 1>>]

\* C8: in a finished figure every existing panel has the x-range of the
\* main panel, which is xlim when given and (0.5, 5.0) otherwise.
C8_SharedXRange ==
    pc = "done" =>
        \A ax \in {"ax1", "ax2", "ax3"} :
            InRows(ax) => axlim[ax] = (IF xlim = <<>> THEN <<500, 5000>> ELSE xlim)

C8_Witness ==
    /\ pc = "done" /\ InRows("ax2") /\ InRows("ax3") /\ xlim = <<1000, 3000>>
    /\ axlim["ax3"] = <<1000, 3000>>

\* C9 (as claimed): for every quantity, a given y-limit on a linear y-axis
\* sets exponent = floor(log10(upper)) and scaling = 10^exponent, and
\* otherwise scaling = 1 with no exponent.
C9_ScalingEveryQuantity ==
    PostAxes =>
        IF ylim # <<>> /\ scale[2] = "linear"
        THEN /\ exponent # NoExp
             /\ Pow10(exponent + 3) <= ylim[2] /\ ylim[2] < Pow10(exponent + 4)
             /\ RatEq(scaling, Rat(Pow10(exponent + 3), 1000))
        ELSE exponent = NoExp /\ scaling = Rat(1, 1)

\* C9 (amended): for the quantities 'flux density' and 'flux', a given
\* y-limit with a positive upper bound on a linear y-axis sets exponent =
\* floor(log10(upper)), scaling = 10^exponent and an axis label with the
\* exponent; with a logarithmic y-axis or no y-limit scaling = 1 and the
\* label has no exponent; for 'magnitude' scaling = 1 and the label has no
\* exponent whatever the y-limit; an upper bound <= 0 on a linear axis ends
\* the call in a math domain error before anything is drawn.
C9_ScalingFluxQuantities ==
    LET scaled == quantity # "magnitude" /\ ylim # <<>> /\ scale[2] = "linear"
    IN /\ (PostAxes /\ scaled) =>
            /\ ylim[2] > 0 /\ exponent # NoExp
            /\ Pow10(exponent + 3) <= ylim[2] /\ ylim[2] < Pow10(exponent + 4)
            /\ RatEq(scaling, Rat(Pow10(exponent + 3), 1000))
            /\ ylabel = (IF quantity = "flux" THEN "lambda F_lambda" ELSE "F_lambda")
                        \o " 10^" \o ToString(exponent)
            /\ (ylim = <<1, 500000>> => exponent = 2 /\ scaling = Rat(100, 1))
       /\ (PostAxes /\ ~scaled) =>
            /\ exponent = NoExp /\ scaling = Rat(1, 1)
            /\ ylabel \in {"F_lambda", "lambda F_lambda", "Contrast (mag)"}
            /\ (quantity = "magnitude" <=> ylabel = "Contrast (mag)")
       /\ (scaled /\ ylim[2] <= 0 /\ pc \notin {"idle", "layout", "axes"})
            => (pc = "error" /\ err = "ValueError: math domain error" /\ draws = <<>>)

C9_Witness ==
    /\ pc = "done" /\ quantity = "flux" /\ ylim = <<1, 500000>> /\ scale[2] = "linear"
    /\ exponent = 2 /\ scaling = Rat(100, 1)

\* C10: every flux and flux error drawn in the main panel for a box equals
\* m * raw / scaling with the scaling of the call, m = 1 unless the
\* quantity is 'flux', and then m = the wavelength of that very sample or
\* the mean wavelength of that very filter (the raw error of an upper limit
\* being half its flux).
Mult(w) == IF quantity = "flux" THEN w ELSE 1000
Expect(w, raw) == Reduce(Mult(w) * raw.num * scaling.den, 1000 * raw.den * scaling.num)
SameVal(a, w, raw) == IF IsNaN(raw.num) THEN a = MaskedVal ELSE a = Expect(w, raw)
ValueOf(dict, key) == dict[CHOOSE n \in 1..Len(dict) : dict[n][1] = key][2]

DrawnAsClaimed(d) ==
    LET box == boxes[d.src.j]
    IN IF box.kind \in {"SpectrumBox", "ModelBox"}
       THEN /\ Len(d.y) = Len(box.flux)
            /\ \A s \in 1..Len(d.y) : SameVal(d.y[s], box.wavelength[s], Rat(box.flux[s], 1))
       ELSE IF box.kind = "list" /\ d.prim = "plot"
       THEN \A s \in 1..Len(d.y) :
                SameVal(d.y[s], box.items[d.src.i].wavelength[s], Rat(box.items[d.src.i].flux[s], 1))
       ELSE IF box.kind = "list"
       THEN LET lo == IF d.src.key = "outer" THEN 3 ELSE 160
                hi == IF d.src.key = "outer" THEN 997 ELSE 840
            IN \A s \in 1..Len(d.y) :
                 /\ SameVal(d.y[s], box.items[1].wavelength[s], SpecPercent(box, lo)[s])
                 /\ SameVal(d.y2[s], box.items[1].wavelength[s], SpecPercent(box, hi)[s])
       ELSE IF box.kind = "PhotometryBox"
       THEN /\ SameVal(d.y[1], box.wavelength[d.src.i], Rat(box.flux[d.src.i][1], 1))
            /\ IF box.flux[d.src.i][2] = NoErr THEN d.yerr = <<>>
               ELSE SameVal(d.yerr[1], box.wavelength[d.src.i], Rat(box.flux[d.src.i][2], 1))
       ELSE IF box.kind = "ObjectBox" /\ d.src.i = 0
       THEN LET rows == ValueOf(box.spectrum, d.src.key)
            IN \A s \in 1..Len(rows) :
                 /\ SameVal(d.y[s], rows[s][1], Rat(rows[s][2], 1))
                 /\ d.prim = "errorbar" => SameVal(d.yerr[s], rows[s][1], Rat(rows[s][3], 1))
       ELSE IF box.kind = "ObjectBox"
       THEN LET p == ValueOf(box.flux, d.src.key)
                w == mean_wavelength(d.src.key)
            IN /\ SameVal(d.y[1], w, Rat(p.f[d.src.i], 1))
               /\ IF "uplims" \in DOMAIN d.kw
                  THEN SameVal(d.yerr[1], w, Rat(p.f[d.src.i], 2))
                  ELSE SameVal(d.yerr[1], w, Rat(p.e[d.src.i], 1))
       ELSE /\ box.kind = "SynphotBox"
            /\ SameVal(d.y[1], mean_wavelength(d.src.key), Rat(ValueOf(box.flux, d.src.key), 1))
            /\ d.yerr = <<>>

C10_FluxTimesOwnWavelength ==
    \A q \in 1..Len(draws) :
        (draws[q].ax = "ax1" /\ draws[q].src.j >= 1) => DrawnAsClaimed(draws[q])

C10_Witness ==
    /\ pc = "done" /\ quantity = "flux" /\ scaling = Rat(100, 1)
    /\ \E a, b \in 1..Len(draws) :
         /\ a < b /\ draws[a].src.j >= 1 /\ draws[a].src.j = draws[b].src.j
         /\ boxes[draws[a].src.j].kind = "ObjectBox"
         /\ draws[a].src.i = 0 /\ draws[b].src.i >= 1
         /\ draws[b].y[1] = Rat(3, 25)
    /\ \E c \in 1..Len(draws) : draws[c].prim = "fill_between"

\* ------------------------------------------------------------- residuals
\* every finite residual of the ResidualsBox, photometric and spectral
FiniteResiduals ==
    {z \in UNION ({{residuals.photometry[n][2].z[i] : i \in 1..Len(residuals.photometry[n][2].z)}
                     : n \in 1..Len(residuals.photometry)}
                  \cup {{residuals.spectrum[n][2][i][2] : i \in 1..Len(residuals.spectrum[n][2])}
                     : n \in 1..Len(residuals.spectrum)}) :
        z # NaN /\ z # PosInf /\ z # NegInf}
\* max |residual| in tenths, 0 when there is none
MaxResidual ==
    IF FiniteResiduals = {} THEN 0
    ELSE LET a == {IF z < 0 THEN -z ELSE z : z \in FiniteResiduals}
         IN CHOOSE x \in a : \A y \in a : y <= x
\* ceil(1.1 * max |residual|): the least integer c with 100 c >= 11 max
ComputedLimit == CHOOSE c \in 0..(MaxResidual + 1) :
                    100 * c >= 11 * MaxResidual /\ 100 * (c - 1) < 11 * MaxResidual
ClaimedLimit == IF ComputedLimit > 10 THEN 5 ELSE ComputedLimit
ResidualsDrawn == residuals.given /\ ~NoObjectBox /\ pc \in {"legend", "output", "done"}

\* C11 (as claimed): when the call reaches the residual panel, the panel is
\* completed with the y-range (-L, L), L = ceil(1.1 max|residual|) over the
\* finite residuals and reset to 5 when above 10, or with exactly ylim_res
\* when that is given.
C11_ResidualRange ==
    [][(pc = "residuals" /\ residuals.given /\ ~NoObjectBox)
        => /\ pc' = "legend"
           /\ aylim'["ax3"] = IF ylim_res = <<>>
                                THEN <<Rat(-ClaimedLimit, 1), Rat(ClaimedLimit, 1)>>
                                ELSE <<Rat(ylim_res[1], 1000), Rat(ylim_res[2], 1000)>>]_vars

\* C12: a completed residual panel has one dashed line at 0, and dotted
\* lines at -5 and +5 exactly when the residual limit after the reset
\* exceeds 5 or ylim_res has a lower bound < -5 and an upper bound > 5; a
\* computed limit above 10 without ylim_res gives no +-5 lines.
GuideAt(y, ls) ==
    \E q \in 1..Len(draws) :
        /\ draws[q].ax = "ax3" /\ draws[q].prim = "axhline"
        /\ draws[q].y = <<Rat(y, 1)>> /\ draws[q].kw["ls"] = ls
C12_GuideLines ==
    ResidualsDrawn =>
        LET wide == ylim_res # <<>> /\ ylim_res[1] < -5000 /\ ylim_res[2] > 5000
        IN /\ GuideAt(0, "--")
           /\ Cardinality({q \in 1..Len(draws) : draws[q].prim = "axhline" /\ draws[q].ax = "ax3"})
                \in {1, 3}
           /\ (GuideAt(5, ":") /\ GuideAt(-5, ":")) <=> (res_lim > 5 \/ wide)
           /\ (GuideAt(5, ":") \/ GuideAt(-5, ":")) <=> (res_lim > 5 \/ wide)
           /\ (FiniteResiduals # {} /\ ComputedLimit > 10 /\ ylim_res = <<>>)
                => (res_lim = 5 /\ ~GuideAt(5, ":") /\ ~GuideAt(-5, ":"))

C12_Witness ==
    /\ pc = "done" /\ residuals = ResPhotOnly(91) /\ ylim_res = <<>> /\ ~NoObjectBox
    /\ res_lim = 5 /\ GuideAt(0, "--") /\ ~GuideAt(5, ":")

\* --------------------------------------------------- synthetic photometry
\* the smallest index of an ObjectBox in the list of boxes, 0 if there is none
FirstObject ==
    IF NoObjectBox THEN 0
    ELSE CHOOSE i \in 1..Len(boxes) :
            /\ boxes[i].kind = "ObjectBox"
            /\ \A k \in 1..(i - 1) : boxes[k].kind # "ObjectBox"
AtSynphot == pc = "items" /\ j <= Len(boxes) /\ boxes[j].kind = "SynphotBox"
OwnStyle(item) == j <= Len(plot_kwargs) /\ Has(plot_kwargs[j], item)
\* the style the ObjectBox at index oi holds for a filter: a dict, or the
\* first element of a list
HasStyle(oi, item) ==
    /\ oi # 0 /\ oi <= Len(plot_kwargs) /\ Has(plot_kwargs[oi], item)
    /\ IsList(plot_kwargs[oi].v[item]) => Len(plot_kwargs[oi].v[item].v) >= 1
StyleOf(oi, item) ==
    IF IsList(plot_kwargs[oi].v[item]) THEN plot_kwargs[oi].v[item].v[1].v
    ELSE plot_kwargs[oi].v[item].v
\* the draw call added by the step for a filter of box j
NewDraw(item, P(_)) ==
    \E q \in (Len(draws) + 1)..Len(draws') :
        /\ draws'[q].src = Src(j, item, 1) /\ draws'[q].ax = "ax1"
        /\ draws'[q].prim = "errorbar" /\ draws'[q].yerr = <<>>
        /\ P(draws'[q])
OpenSquare(d) ==
    /\ d.kw["marker"] = "s" /\ d.kw["mfc"] = "white" /\ "label" \notin DOMAIN d.kw

\* C13 (as claimed): every filter of a SynphotBox is drawn, without
\* y-error, with (1) the box's own entry for the filter, else (2) the style
\* of the first ObjectBox for that filter (a dict, or the first element of a
\* list) without 'label' and 'mfc' and with a white face, else (3) the
\* open-square default.
C13_SynphotStyle ==
    [][AtSynphot =>
        \A n \in 1..Len(boxes[j].flux) :
            LET item == boxes[j].flux[n][1]
            IN IF OwnStyle(item)
               THEN /\ pc' = "items"
                    /\ NewDraw(item, LAMBDA d :
                          \A k \in DOMAIN plot_kwargs[j].v[item].v :
                              d.kw[k] = plot_kwargs[j].v[item].v[k])
               ELSE IF HasStyle(FirstObject, item)
               THEN /\ pc' = "items"
                    /\ NewDraw(item, LAMBDA d :
                          /\ d.kw["mfc"] = "white" /\ "label" \notin DOMAIN d.kw
                          /\ \A k \in DOMAIN StyleOf(FirstObject, item) \ {"label", "mfc"} :
                                d.kw[k] = StyleOf(FirstObject, item)[k])
               ELSE (FirstObject <= Len(plot_kwargs))
                       => (pc' = "items" /\ NewDraw(item, OpenSquare))]_vars

\* C14: a SynphotBox without an entry of its own for a filter, wherever it
\* stands, takes the colour of the style that the ObjectBox of smallest
\* index holds for the filter, and the default when that ObjectBox holds
\* none; every residual is drawn with the style that the ObjectBox of
\* smallest index holds for its key.  A later ObjectBox is not consulted.
DefaultSynphot ==
    "alpha" :> "0.7" @@ "marker" :> "s" @@ "ms" :> "5" @@ "zorder" :> "4.0" @@ "mfc" :> "white"
C14_FirstObjectWins ==
    /\ [][(AtSynphot /\ pc' = "items") =>
            \A n \in 1..Len(boxes[j].flux) :
                LET item == boxes[j].flux[n][1]
                IN ~OwnStyle(item) =>
                     IF HasStyle(FirstObject, item)
                     THEN NewDraw(item, LAMBDA d :
                             "color" \in DOMAIN StyleOf(FirstObject, item)
                                => d.color = StyleOf(FirstObject, item)["color"])
                     ELSE NewDraw(item, LAMBDA d : d.kw = DefaultSynphot)]_vars
    /\ [][(pc = "residuals" /\ pc' = "legend" /\ residuals.given) =>
            \A q \in (Len(draws) + 1)..Len(draws') :
                (draws'[q].prim # "axhline" /\ Has(plot_kwargs[FirstObject], draws'[q].src.key))
                    => LET st == plot_kwargs[FirstObject].v[draws'[q].src.key]
                           kw == IF IsList(st) THEN st.v[draws'[q].src.i].v ELSE st.v
                       IN /\ draws'[q].ax = "ax3"
                          /\ \A k \in DOMAIN kw : draws'[q].kw[k] = kw[k]]_vars

C14_Witness ==
    /\ pc = "done" /\ residuals.given /\ kw_given /\ Len(boxes) = 3
    /\ boxes[1].kind = "SynphotBox" /\ boxes[2].kind = "ObjectBox" /\ boxes[3].kind = "ObjectBox"
    /\ IsNone(orig_kwargs[1])
    /\ Has(orig_kwargs[2], "F1") /\ Has(orig_kwargs[3], "F1")
    /\ orig_kwargs[2].v["F1"].v["color"] = "red" /\ orig_kwargs[3].v["F1"].v["color"] = "blue"
    /\ \E q \in 1..Len(draws) :
          draws[q].ax = "ax1" /\ draws[q].src = Src(1, "F1", 1) /\ draws[q].color = "red"
    /\ \E q \in 1..Len(draws) :
          draws[q].ax = "ax3" /\ draws[q].src.key = "F1" /\ draws[q].color = "red"

\* ------------------------------------------------------------------ legend
\* draw call q of the main panel is a legend handle: it carries a label
IsHandle(q) ==
    /\ draws[q].ax = "ax1" /\ "label" \in DOMAIN draws[q].kw /\ draws[q].kw["label"] # NoneStr
HandlesOf(prims) == {q \in 1..Len(draws) : IsHandle(q) /\ draws[q].prim \in prims}
\* the legend drawn for a group, <<>> if none
GroupLegend(g) == SelectSeq(legends, LAMBDA l : l.group = g)
\* the legend of group g lists exactly the handles of the primitive, in order
ListsInOrder(g, prim) ==
    /\ Len(GroupLegend(g)) = 1
    /\ Len(GroupLegend(g)[1].labels) = Cardinality(HandlesOf({prim}))
    /\ \A q \in HandlesOf({prim}) :
          GroupLegend(g)[1].labels[Cardinality({r \in HandlesOf({prim}) : r <= q})]
              = draws[q].kw["label"]
LegendDone == pc \in {"output", "done"}

\* C15: with a two-element legend and at least one handle, the model legend
\* lists the labelled lines and the data legend the labelled error bars,
\* each in drawing order and nothing else; a handle of another primitive
\* is in neither, gives one warning each and the call goes on; an entry
\* that is None suppresses its legend only, and two requested legends are
\* both on the figure.  Without handles or with legend None no legend is
\* drawn.
C15_LegendComposition ==
    /\ [](LegendDone =>
            /\ (HandlesOf({"plot", "errorbar", "fill_between"}) = {} \/ legend.t = "none")
                  => legends = <<>>
            /\ (HandlesOf({"plot", "errorbar", "fill_between"}) # {} /\ legend.t = "list") =>
                  /\ IF legend.v[1] # "" THEN ListsInOrder("model", "plot")
                     ELSE GroupLegend("model") = <<>>
                  /\ IF legend.v[2] # "" THEN ListsInOrder("data", "errorbar")
                     ELSE GroupLegend("data") = <<>>
                  /\ Len(legends) = Len(GroupLegend("model")) + Len(GroupLegend("data"))
                  /\ warned = Cardinality(HandlesOf({"fill_between"})))
    /\ [][pc = "legend" => (pc' = "output" /\ err' = "")]_vars

C15_Witness ==
    /\ pc = "done" /\ legend = LegendPair("upper left", "lower right")
    /\ Len(legends) = 2 /\ warned = 2
    /\ GroupLegend("model")[1].labels = <<"spec">>
    /\ GroupLegend("data")[1].labels = <<"obs">>

\* ----------------------------------------------------------------- masking
\* the raw flux samples behind a draw call of a spectrum
RawFlux(d) ==
    LET box == boxes[d.src.j]
    IN IF box.kind \in {"SpectrumBox", "ModelBox"} THEN box.flux
       ELSE IF box.kind = "list" THEN box.items[d.src.i].flux
       ELSE Column(ValueOf(box.spectrum, d.src.key), 2)
IsSpectrumDraw(d) ==
    /\ d.ax = "ax1" /\ d.src.j >= 1
    /\ \/ boxes[d.src.j].kind \in {"SpectrumBox", "ModelBox"}
       \/ boxes[d.src.j].kind = "list" /\ d.prim = "plot"
       \/ boxes[d.src.j].kind = "ObjectBox" /\ d.src.i = 0

\* C16 (as claimed): in every draw call of a SpectrumBox or ModelBox, of a
\* sample of a list and of a spectrum of an ObjectBox, a flux sample is
\* masked exactly when it is NaN, +inf or -inf.
C16_NonFiniteMasked ==
    \A q \in 1..Len(draws) :
        IsSpectrumDraw(draws[q]) =>
            \A s \in 1..Len(RawFlux(draws[q])) :
                (draws[q].y[s] = MaskedVal)
                    <=> (RawFlux(draws[q])[s] \in {NaN, PosInf, NegInf})

\* ------------------------------------------------------------ upper limits
IsObjectPhot(d) ==
    /\ d.ax = "ax1" /\ d.src.j >= 1 /\ boxes[d.src.j].kind = "ObjectBox" /\ d.src.i >= 1
    /\ ValueOf(boxes[d.src.j].flux, d.src.key).nd = 1

\* C17 (as claimed): a single photometric measurement of an ObjectBox is
\* drawn as an upper limit, with a y-error of half the drawn flux, exactly
\* when its stored error is zero, with or without an override for the filter.
C17_ZeroErrorUpperLimit ==
    \A q \in 1..Len(draws) :
        IsObjectPhot(draws[q]) =>
            LET d == draws[q]
                p == ValueOf(boxes[d.src.j].flux, d.src.key)
            IN /\ ("uplims" \in DOMAIN d.kw) <=> (p.e[1] = 0)
               /\ (p.e[1] = 0) => d.yerr = <<Expect(mean_wavelength(d.src.key), Rat(p.f[1], 2))>>

\* ------------------------------------------------------------------ z-order
\* the default z-order of the kind of input a draw call belongs to
KindZorder(d) ==
    LET kind == boxes[d.src.j].kind
    IN IF kind = "list" THEN "1.0"
       ELSE IF kind \in {"SpectrumBox", "ModelBox"} THEN "2.0"
       ELSE IF kind = "ObjectBox" /\ d.src.i = 0 THEN "2.5"
       ELSE IF kind \in {"ObjectBox", "PhotometryBox"} THEN "3.0"
       ELSE "4.0"

\* C18 (as claimed): no override given by the caller names a zorder, and
\* every draw call of a box in the main panel is issued with the default
\* z-order of its kind: 1.0 series and bands, 2.0 single spectra, 2.5
\* spectra of an ObjectBox, 3.0 photometry, 4.0 synthetic photometry.
C18_DefaultZorder ==
    \A q \in 1..Len(draws) :
        (draws[q].ax = "ax1" /\ draws[q].src.j >= 1) =>
            /\ "zorder" \in DOMAIN draws[q].kw
            /\ draws[q].kw["zorder"] = KindZorder(draws[q])

\* ------------------------------------------------------------------- labels
\* C19 (as claimed): within one call no two draw calls of the main panel
\* carry the same legend label.
C19_OneDrawPerLabel ==
    \A a, b \in 1..Len(draws) :
        (a < b /\ IsHandle(a) /\ IsHandle(b)) => draws[a].kw["label"] # draws[b].kw["label"]

\* ------------------------------------------------------------------- output
\* C20: a finished call has displayed the figure once and saved nothing
\* when output is None, and saved it once and displayed nothing otherwise;
\* the display or save is the last step of the call, after the draw calls,
\* the residual limit and the legends, which it leaves as they are; a call
\* that is running or has failed has displayed and saved nothing.
C20_SingleOutput ==
    /\ [](pc = "done" =>
            /\ shown + saved = 1
            /\ (output = NoneStr) <=> (shown = 1))
    /\ [](pc # "done" => (shown = 0 /\ saved = 0))
    /\ [][((shown' # shown \/ saved' # saved) /\ ncalls' = ncalls) =>
            /\ pc = "output" /\ pc' = "done"
            /\ draws' = draws /\ legends' = legends /\ res_lim' = res_lim /\ aylim' = aylim
            /\ (residuals.given => res_lim >= 0)]_vars
    /\ [][pc = "done" => ncalls' = ncalls + 1]_vars

C20_Witness ==
    /\ pc = "done" /\ output = "fig.pdf" /\ saved = 1 /\ shown = 0
    /\ residuals.given /\ res_lim = 6 /\ legends # <<>> /\ Len(draws) > 4

\* ------------------------------------------------------ photometric markers
\* the photometric points of box k: (key, i) with the filter and the x position
PhotPoints(k) ==
    LET box == boxes[k]
    IN IF box.kind = "PhotometryBox"
       THEN {[key |-> box.filter_name[i], i |-> i, x |-> box.wavelength[i]]
                : i \in 1..Len(box.wavelength)}
       ELSE IF box.kind = "ObjectBox"
       THEN UNION {{[key |-> box.flux[n][1], i |-> i, x |-> mean_wavelength(box.flux[n][1])]
                      : i \in 1..Len(box.flux[n][2].f)} : n \in 1..Len(box.flux)}
       ELSE IF box.kind = "SynphotBox"
       THEN {[key |-> box.flux[n][1], i |-> 1, x |-> mean_wavelength(box.flux[n][1])]
                : n \in 1..Len(box.flux)}
       ELSE {}
\* box k has been rendered by the running call
Rendered(k) == (pc = "items" /\ k < j) \/ pc \in {"residuals", "legend", "output", "done"}
MarkersOf(k, pt) ==
    {q \in 1..Len(draws) : draws[q].ax = "ax1" /\ draws[q].src = Src(k, pt.key, pt.i)}

\* C21: every photometric point of a rendered PhotometryBox, ObjectBox or
\* SynphotBox is exactly one error-bar call with an x-error of half the
\* FWHM of its own filter, at the mean wavelength of the filter for an
\* ObjectBox and a SynphotBox; an ObjectBox with the single point
\* F1: (10.0, 1.0), without filters and residuals, gives one panel and one
\* error bar at mean_wavelength(F1), with y = 10.0 / scaling for the
\* quantity 'flux density'.
C21_PhotometricMarkers ==
    /\ \A k \in 1..Len(boxes) : \A pt \in PhotPoints(k) :
          /\ Rendered(k) => Cardinality(MarkersOf(k, pt)) = 1
          /\ \A q \in MarkersOf(k, pt) :
                /\ draws[q].prim = "errorbar"
                /\ draws[q].x = <<pt.x>>
                /\ Len(draws[q].xerr) = 1
                /\ 2 * draws[q].xerr[1].num = filter_fwhm(pt.key) * draws[q].xerr[1].den
    /\ (pc = "done" /\ boxes = <<ObjectBox(<<>>, <<<<"F1", Phot1(10, 1)>>>>)>>)
          => /\ panels.rows = <<"ax1">>
             /\ Len(draws) = 1 /\ draws[1].prim = "errorbar"
             /\ draws[1].x = <<mean_wavelength("F1")>>
             /\ quantity = "flux density"
                   => draws[1].y[1].num * scaling.num = 10 * scaling.den * draws[1].y[1].den

C21_Witness ==
    /\ pc = "done" /\ boxes = <<ObjectBox(<<>>, <<<<"F1", Phot1(10, 1)>>>>)>>
    /\ quantity = "flux density"
    /\ Len(draws) = 1 /\ draws[1].x = <<1200>> /\ draws[1].xerr = <<Rat(200, 2)>>
    /\ draws[1].y = <<Rat(10, 1)>>

\* --------------------------------------------------------------- draw order
\* position of a key in a dictionary kept in insertion order
IndexOf(dict, key) == CHOOSE n \in 1..Len(dict) : dict[n][1] = key
FirstWavelength(box, key) == ValueOf(box.spectrum, key)[1][1]

\* C22 (as claimed): of two draw calls of one ObjectBox the earlier one is
\* a spectrum or both are photometry; two spectra come in ascending order
\* of their first wavelength, in dictionary order when these are equal;
\* two filters come in ascending order of mean wavelength.
C22_ObjectDrawOrder ==
    \A a, b \in 1..Len(draws) :
        (/\ a < b /\ draws[a].ax = "ax1" /\ draws[b].ax = "ax1"
         /\ draws[a].src.j >= 1 /\ draws[a].src.j = draws[b].src.j
         /\ boxes[draws[a].src.j].kind = "ObjectBox") =>
            LET box == boxes[draws[a].src.j]
                ka == draws[a].src.key
                kb == draws[b].src.key
            IN /\ ~(draws[a].src.i >= 1 /\ draws[b].src.i = 0)
               /\ (draws[a].src.i = 0 /\ draws[b].src.i = 0) =>
                     /\ FirstWavelength(box, ka) <= FirstWavelength(box, kb)
                     /\ FirstWavelength(box, ka) = FirstWavelength(box, kb)
                           => IndexOf(box.spectrum, ka) < IndexOf(box.spectrum, kb)
               /\ (draws[a].src.i >= 1 /\ draws[b].src.i >= 1) =>
                     mean_wavelength(ka) <= mean_wavelength(kb)

\* ------------------------------------------------------ a list of samples
RatLe(a, b) == a.num * b.den <= b.num * a.den
\* the draw calls of the item k, in the order they were issued
DrawsOf(k) == SelectSeq(draws, LAMBDA d : d.ax = "ax1" /\ d.src.j = k)
BandIs(d, box, lo, hi) ==
    /\ d.prim = "fill_between"
    /\ Len(d.y) = NSamples /\ Len(d.y2) = NSamples
    /\ \A s \in 1..NSamples :
         /\ SameVal(d.y[s], box.items[1].wavelength[s], SpecPercent(box, lo)[s])
         /\ SameVal(d.y2[s], box.items[1].wavelength[s], SpecPercent(box, hi)[s])
LineIs(d, item) ==
    /\ d.prim = "plot" /\ d.x = item.wavelength
    /\ \A s \in 1..NSamples : SameVal(d.y[s], item.wavelength[s], Rat(item.flux[s], 1))

KeysOf(box) == {box.spectrum[n][1] : n \in 1..Len(box.spectrum)}
                  \cup {box.flux[n][1] : n \in 1..Len(box.flux)}
Overridden(k, key) == kw_given /\ k <= Len(orig_kwargs) /\ Has(orig_kwargs[k], key)
\* the colours in which the ObjectBox k drew its data for the key
ObjectColours(k, key) ==
    {draws[q].color : q \in {n \in 1..Len(draws) :
        draws[n].ax = "ax1" /\ draws[n].src.j = k /\ draws[n].src.key = key}}
\* the style map of every rendered ObjectBox is complete: a key with an
\* override keeps its keywords, a key without holds the colour drawn
StyleMapComplete ==
    \A k \in 1..Len(boxes) :
        (boxes[k].kind = "ObjectBox" /\ Rendered(k) /\ err = "") =>
            \A key \in KeysOf(boxes[k]) :
                /\ Has(plot_kwargs[k], key)
                /\ IF Overridden(k, key)
                   THEN LET old == orig_kwargs[k].v[key]
                            new == plot_kwargs[k].v[key]
                        IN IF IsList(old)
                           THEN /\ IsList(new) /\ Len(new.v) = Len(old.v)
                                /\ \A i \in 1..Len(old.v) : \A a \in DOMAIN old.v[i].v :
                                       a \in DOMAIN new.v[i].v /\ new.v[i].v[a] = old.v[i].v[a]
                           ELSE \A a \in DOMAIN old.v :
                                   a \in DOMAIN new.v /\ new.v[a] = old.v[a]
                   ELSE /\ IsDict(plot_kwargs[k].v[key])
                        /\ "color" \in DOMAIN plot_kwargs[k].v[key].v
                        /\ ObjectColours(k, key) = {plot_kwargs[k].v[key].v["color"]}
\* a draw call that looked its style up in the ObjectBox of smallest
\* index: a residual, or a filter of a later SynphotBox without own entry
IsLookup(q) ==
    /\ FirstObject # 0 /\ err = ""
    /\ draws[q].src.key \in KeysOf(boxes[FirstObject])
    /\ \/ draws[q].ax = "ax3" /\ draws[q].prim # "axhline"
       \/ /\ draws[q].ax = "ax1" /\ draws[q].src.j > FirstObject
          /\ boxes[draws[q].src.j].kind = "SynphotBox"
          /\ ~Has(plot_kwargs[draws[q].src.j], draws[q].src.key)
\* the keywords of the style a lookup found
LookedUp(q) ==
    LET st == plot_kwargs[FirstObject].v[draws[q].src.key]
    IN IF ~IsList(st) THEN st.v
       ELSE IF draws[q].ax = "ax3" THEN st.v[draws[q].src.i].v ELSE st.v[1].v
SameColour(q) == draws[q].color \in ObjectColours(FirstObject, draws[q].src.key)

\* C24 (as claimed): the style map of a rendered ObjectBox is complete,
\* and every later residual or synthetic-photometry lookup for one of its
\* keys finds a style and draws in a colour of the object's data.
C24_StylePersisted ==
    /\ StyleMapComplete
    /\ \A q \in 1..Len(draws) :
          IsLookup(q) => (Has(plot_kwargs[FirstObject], draws[q].src.key) /\ SameColour(q))

\* C24 (amended): the same, the colour being that of the object's data
\* when the style found names a colour, as every captured style does.
C24_StylePersistedColour ==
    /\ StyleMapComplete
    /\ \A q \in 1..Len(draws) :
          IsLookup(q) =>
            /\ Has(plot_kwargs[FirstObject], draws[q].src.key)
            /\ "color" \in DOMAIN LookedUp(q) => SameColour(q)
            /\ ~Overridden(FirstObject, draws[q].src.key) => SameColour(q)

C24_Witness ==
    /\ pc = "done" /\ err = "" /\ residuals.given /\ ~kw_given /\ Len(boxes) = 2
    /\ boxes[1].kind = "SpectrumBox" /\ boxes[2].kind = "ObjectBox"
    /\ plot_kwargs[2].v["sp1"].v["color"] = ColorCycle[2]
    /\ \E q \in 1..Len(draws) :
         /\ draws[q].ax = "ax3" /\ draws[q].src.key = "sp1" /\ IsLookup(q)
         /\ draws[q].color = ColorCycle[2]

\* ------------------------------------------------ reads of the style list
\* a SynphotBox stands before the first ObjectBox
SynphotFirst ==
    \E k \in 1..Len(boxes) : boxes[k].kind = "SynphotBox" /\ k < FirstObject

\* C25 (as claimed): no read of plot_kwargs at the index of a box ends in
\* an IndexError, and without plot_kwargs a SynphotBox that stands before
\* the first ObjectBox is drawn, every filter with the open-square default.
C25_StyleListIndex ==
    /\ [](err # "IndexError")
    /\ [][(AtSynphot /\ ~kw_given /\ j < FirstObject) =>
            /\ pc' = "items"
            /\ \A n \in 1..Len(boxes[j].flux) :
                  NewDraw(boxes[j].flux[n][1], LAMBDA d : d.kw = DefaultSynphot)]_vars

\* --------------------------------------------------- the caller's list
\* C26 (as claimed): after a successful call with as many overrides as
\* boxes the caller's list has as many entries as before, and every entry
\* that was None is None.
C26_CallerListUnchanged ==
    (kw_given /\ pc = "done" /\ Len(orig_kwargs) = Len(boxes)) =>
        /\ Len(plot_kwargs) = Len(orig_kwargs)
        /\ \A i \in 1..Len(orig_kwargs) :
              (i <= Len(plot_kwargs) /\ IsNone(orig_kwargs[i])) => IsNone(plot_kwargs[i])

\* ------------------------------------------- the automatic residual range
AutoRange == ResidualsDrawn /\ ylim_res = <<>>

\* C27 (as claimed): the automatic range (-L, L) of a completed residual
\* panel has L > 0 and L >= max |residual| over the finite residuals.
C27_RangeHoldsResiduals ==
    AutoRange =>
        /\ res_lim > 0
        /\ aylim["ax3"] = <<Rat(-res_lim, 1), Rat(res_lim, 1)>>
        /\ 10 * res_lim >= MaxResidual

\* C27 (amended): L = ceil(1.1 max |residual|) holds every finite residual
\* when that value is at most 10, and is 0 exactly when no residual is
\* non-zero; above 10 the limit is 5 and the largest residual lies outside.
C27_RangeUpToTen ==
    AutoRange =>
        /\ aylim["ax3"] = <<Rat(-res_lim, 1), Rat(res_lim, 1)>>
        /\ IF ComputedLimit <= 10
           THEN /\ res_lim = ComputedLimit
                /\ 10 * res_lim >= MaxResidual
                /\ res_lim = 0 <=> MaxResidual = 0
           ELSE res_lim = 5 /\ MaxResidual > 10 * res_lim

C27_Witness ==
    /\ pc = "done" /\ AutoRange /\ residuals = Res1
    /\ MaxResidual = 49 /\ res_lim = 6
    /\ \E q \in 1..Len(draws) : draws[q].ax = "ax3" /\ draws[q].src.key = "sp1" /\ draws[q].y[1] = Rat(49, 10)

====
